---- MODULE Spec2Model ----
\* Model of the soroban-env-host interpreter core (src/soroban-env-host/src/host.rs,
\* events.rs): the object table, the storage overlay, the frame stack with its
\* rollback points, the event log and the budget, driven by a guest that calls
\* host functions in any order.
EXTENDS Integers, Sequences, FiniteSets, TLC

\* ------------------------------------------------------------------ bounds
MaxBalance == 2    \* greatest balance a receive_balance is let reach
MaxLeft == 14       \* units left below the budget limit when an operation starts
MaxDepth == 2       \* nesting of with_frame activations on the Rust call stack
MaxObjects == 3     \* object-table length explored
MaxEvents == 1      \* event-log length explored
MaxLimit == 5       \* budget limit of a host whose charges are counted one by one
MaxOver == 2        \* charges followed after the limit has been crossed
MaxRefs == 2        \* strong and weak references to the host explored

\* ------------------------------------------------------------- value sets
ContractIds == {"c1"}          \* registered test contracts (HostImpl.contracts)
UserKeys == {"x"}              \* contract-data keys (Symbol)
Vals == {1, 2}                  \* contract-data values (U32)
U64Vals == {7}                 \* payloads of U64 objects
CostTypes == {"HostEventDebug", "VisitObject"}   \* cost types charged one by one
Inputs == 0..3                 \* inputs of those charges
Elems == 1..2                  \* elements, map keys and bytes given to containers
Indices == 0..1                \* u32 indices given to containers
QueryKeys == 0..4              \* keys given to map_prev_key and map_next_key
LogVals == {1, 2}              \* values passed to log_value
CreatedIds == {"h0", "h1", "h2"}    \* ids of contracts created by contracts
Codes == {<<1>>, <<3>>}             \* contract code (WASM bytes) found in storage
Keys == (ContractIds \X UserKeys) \cup (CreatedIds \X {"ContractCodeWasm"})
\* The LedgerInfo values an embedder sets.
LedgerInfos ==
  << [protocol_version |-> 1, sequence_number |-> 3, timestamp |-> 7, network_id |-> <<1>>],
     [protocol_version |-> 2, sequence_number |-> 4, timestamp |-> 8, network_id |-> <<2>>],
     [protocol_version |-> 2, sequence_number |-> 5, timestamp |-> 7, network_id |-> <<1, 2>>] >>

Min(a, b) == IF a < b THEN a ELSE b

VARIABLES
  objects,    \* HostImpl.objects : Vec<HostObject>
  storage,    \* HostImpl.storage.map : key -> Option<entry> overlay
  context,    \* HostImpl.context : Vec<Frame>
  events,     \* HostImpl.events : Events
  budget,     \* HostImpl.budget : [used, limit], kept relative to the operation
  stack,      \* live with_frame activations (their locals start_depth and rp)
  ret,        \* outcome of the host operation that completed last
  issued,     \* history: issued[h+1] = object stored when handle h was first issued
  panicked,   \* a Rust panic (assert_eq!, expect) aborted the host
  ledger,     \* HostImpl.ledger : Option<LedgerInfo>, <<>> for None
  refs,       \* strong and weak counts of the Rc<HostImpl> behind every Host
  elided,     \* number of objects at the front of HostImpl.objects that are not
              \* held one by one, as <<n \div 2^16, n % 2^16>>
  footprint   \* the footprint passed to HostImpl.storage, if one was passed

vars == <<objects, storage, context, events, budget, stack, ret, issued, panicked,
          ledger, refs, elided, footprint>>

\* -------------------------------------------------------------- host state
\* Faulty variant: the budget is refilled after it has been exhausted.
HostImpl_Refilled(left) ==
  [objects |-> objects, storage |-> storage, context |-> context, events |-> events,
   budget |-> [used |-> 0, limit |-> left],
   objects_refs |-> 0, objects_elided |-> elided,
   footprint |-> footprint]

\* The five RefCell/Rc fields of HostImpl, passed through the operators below,
\* and the number of live Ref borrows of the objects cell (none between host
\* functions).
\* The budget limit and the cost model are inputs of the host that are left
\* open: an operation that starts below the limit finds `left` units there.
HostImpl(left) ==
  [objects |-> objects, storage |-> storage, context |-> context, events |-> events,
   budget |-> IF budget.used > budget.limit THEN budget ELSE [used |-> 0, limit |-> left],
   objects_refs |-> 0, objects_elided |-> elided,
   footprint |-> footprint]

\* RawVal results, all of one shape: Void, a Status code, or an Object handle.
\* (handle carries the object handle, or the payload of a U32.)
VoidVal == [tag |-> "Void", status |-> "", type |-> "", handle |-> -1]
StatusVal(s) == [tag |-> "Status", status |-> s, type |-> "", handle |-> -1]
ObjectVal(t, n) == [tag |-> "Object", status |-> "", type |-> t, handle |-> n]
U32Val(n) == [tag |-> "U32", status |-> "", type |-> "", handle |-> n]
BoolVal(b) == [tag |-> "Bool", status |-> "", type |-> "", handle |-> IF b THEN 1 ELSE 0]

\* Result<_, HostError> of an operator, with the host state it leaves behind;
\* Panic is a Rust panic (failed assert_eq! or expect).
Ok(h, v) == [h |-> h, res |-> "Ok", val |-> v]
Err(h, s) == [h |-> h, res |-> "Err", val |-> StatusVal(s)]
Panic(h, m) == [h |-> h, res |-> "Panic", val |-> StatusVal(m)]

\* The `?` of Rust on a Result: an error of r is returned as it is, otherwise
\* the rest of the function, F, goes on from r. r is computed once.
Then(r, F(_)) == CHOOSE y \in {IF x.res # "Ok" THEN x ELSE F(x) : x \in {r}} : TRUE

\* ------------------------------------------------------------------ budget
\* Faulty variant: charges cost nothing.
CostOf_Free(ty, input) == 0

\* Cost model f(input) = a + b*input of a cost type; every charge costs one unit.
CostOf(ty, input) == 1

\* Budget::charge: add the cost to the total, then compare it against the limit.
BudgetCharge(b, ty, input) == [b EXCEPT !.used = b.used + CostOf(ty, input)]

BudgetExceeded(b) == b.used > b.limit

\* Faulty variant: the charge is made on a copy of the budget and lost.
charge_budget_OnCopy(h, ty, input) ==
  LET b == BudgetCharge(h.budget, ty, input)
  IN IF BudgetExceeded(b) THEN Err(h, "BudgetExceeded") ELSE Ok(h, VoidVal)

\* Host::charge_budget: the charge goes to the budget shared by all clones.
charge_budget(h, ty, input) ==
  LET b == BudgetCharge(h.budget, ty, input)
      h1 == [h EXCEPT !.budget = b]
  IN IF BudgetExceeded(b) THEN Err(h1, "BudgetExceeded") ELSE Ok(h1, VoidVal)

\* ------------------------------------------------------------------ events
\* Events::record_debug_event: push the event, return the number of its args.
Events_record_debug_event(evs, de) ==
  [events |-> Append(evs, [type |-> "Debug", msg |-> de.msg, args |-> de.args]),
   len |-> Len(de.args)]

\* Faulty variant: the event is dropped when the charge that follows would fail.
record_debug_event_ChargeFirst(h, de) ==
  Then(charge_budget(h, "HostEventDebug", Len(de.args)), LAMBDA c :
    Ok([c.h EXCEPT !.events = Events_record_debug_event(@, de).events], VoidVal))

\* Host::record_debug_event: record first, charge afterwards.
record_debug_event(h, de) ==
  LET r == Events_record_debug_event(h.events, de)
      h1 == [h EXCEPT !.events = r.events]
  IN charge_budget(h1, "HostEventDebug", r.len)

\* ------------------------------------------------------------ ledger info
\* Faulty variant: the info of the first call is kept.
set_ledger_info_Once(li, info) == IF li = <<>> THEN <<info>> ELSE li

\* Host::set_ledger_info: the slot is overwritten with Some(info).
set_ledger_info(li, info) == <<info>>

\* Host::with_ledger_info up to its closure, which gets the info stored.
with_ledger_info(h, li) ==
  IF li = <<>> THEN Err(h, "GeneralError") ELSE Ok(h, li[1])

\* ---------------------------------------------------------- host references
\* Faulty variant: the host is taken apart whoever else holds it.
try_finish_IgnoresCount(h, rc) ==
  [res |-> "Ok", val |-> [storage |-> h.storage, budget |-> h.budget, events |-> h.events],
   refs |-> [rc EXCEPT !.strong = 0]]

\* Host::try_finish: Rc::try_unwrap gives the HostImpl when the strong count is
\* one, whatever the weak count, and the same Rc back otherwise.
try_finish(h, rc) ==
  IF rc.strong = 1
    THEN [res |-> "Ok",
          val |-> [storage |-> h.storage, budget |-> h.budget, events |-> h.events],
          refs |-> [rc EXCEPT !.strong = 0]]
    ELSE [res |-> "Err", val |-> VoidVal, refs |-> rc]

\* ------------------------------------------------------------------ frames
TestContract(id) == [kind |-> "TestContract", id |-> id]

\* Faulty variant: the elements are dropped from the front.
Truncate_FromFront(s, n) == SubSeq(s, Len(s) - Min(n, Len(s)) + 1, Len(s))

\* Vec::truncate(n): keep the first n elements.
Truncate(s, n) == SubSeq(s, 1, Min(n, Len(s)))
Pop(s) == SubSeq(s, 1, Len(s) - 1)

\* Faulty variant: the frame is pushed before the charge.
push_frame_PushFirst(h, frame) ==
  Then(charge_budget([h EXCEPT !.context = Append(@, frame)], "PushFrame", 1), LAMBDA c :
    Ok(c.h, [objects |-> Len(c.h.objects), storage |-> c.h.storage]))

\* Host::push_frame
push_frame(h, frame) ==
  Then(charge_budget(h, "PushFrame", 1), LAMBDA c :
    Ok([c.h EXCEPT !.context = Append(@, frame)],
       [objects |-> Len(c.h.objects), storage |-> c.h.storage]))

\* Faulty variant: the rollback is applied on every pop, also on success.
pop_frame_AlwaysRollback(h, orp, rp) ==
  Then(charge_budget(h, "PopFrame", 1), LAMBDA c :
    IF c.h.context = <<>> THEN Panic(c.h, "unmatched host frame push/pop")
    ELSE Ok([c.h EXCEPT !.context = Pop(@),
                        !.objects = Truncate(@, rp.objects),
                        !.storage = rp.storage], VoidVal))

\* Faulty variant: the rollback truncates the object table one slot too far.
pop_frame_TruncateLow(h, orp, rp) ==
  Then(charge_budget(h, "PopFrame", 1), LAMBDA c :
    IF c.h.context = <<>> THEN Panic(c.h, "unmatched host frame push/pop")
    ELSE IF orp
      THEN Ok([c.h EXCEPT !.context = Pop(@),
                          !.objects = Truncate(@, IF rp.objects > 0 THEN rp.objects - 1 ELSE 0),
                          !.storage = rp.storage], VoidVal)
      ELSE Ok([c.h EXCEPT !.context = Pop(@)], VoidVal))

\* Faulty variant: the rollback also discards the event log.
pop_frame_RollbackEvents(h, orp, rp) ==
  Then(charge_budget(h, "PopFrame", 1), LAMBDA c :
    IF c.h.context = <<>> THEN Panic(c.h, "unmatched host frame push/pop")
    ELSE IF orp
      THEN Ok([c.h EXCEPT !.context = Pop(@),
                          !.objects = Truncate(@, rp.objects),
                          !.storage = rp.storage,
                          !.events = <<>>], VoidVal)
      ELSE Ok([c.h EXCEPT !.context = Pop(@)], VoidVal))

\* Host::pop_frame. orp = TRUE stands for Some(rp), FALSE for None.
pop_frame(h, orp, rp) ==
  Then(charge_budget(h, "PopFrame", 1), LAMBDA c :
    IF c.h.context = <<>> THEN Panic(c.h, "unmatched host frame push/pop")
    ELSE IF orp
      THEN Ok([c.h EXCEPT !.context = Pop(@),
                          !.objects = Truncate(@, rp.objects),
                          !.storage = rp.storage], VoidVal)
      ELSE Ok([c.h EXCEPT !.context = Pop(@)], VoidVal))

\* Host::with_frame up to the call of the closure: GuardFrame, start_depth, push_frame.
\* On success val is the activation (the locals that live across the closure call).
with_frame_enter(h, frame) ==
  Then(charge_budget(h, "GuardFrame", 1), LAMBDA g :
    LET start_depth == Len(g.h.context)
    IN Then(push_frame(g.h, frame), LAMBDA p :
         Ok(p.h, [start_depth |-> start_depth, rp |-> p.val])))

\* Host::with_frame from the return of the closure (res, val) on: pop_frame with
\* or without the rollback point, the depth assertion, the closure's result.
with_frame_exit(h, act, res, val) ==
  Then(pop_frame(h, res = "Err", act.rp), LAMBDA p :
    IF act.start_depth # Len(p.h.context)
    THEN Panic(p.h, "assertion failed: start_depth == end_depth")
    ELSE [h |-> p.h, res |-> res, val |-> val])

\* ------------------------------------------------------------ object table
\* n > u32::MAX, with 2^32 written as 65536 * 65536.
ExceedsU32Max(n) == n \div 65536 > 65535

U64Obj(u) == [type |-> "U64", val |-> u]
BinObj(id) == [type |-> "Bin", val |-> id]
VecObj(v) == [type |-> "Vec", val |-> v]

\* Host::charge_for_new_host_object: the slot, then the cells of the variant.
charge_for_new_host_object(h, ho) ==
  Then(charge_budget(h, "HostObjAllocSlot", 1), LAMBDA s :
  Then(CASE ho.type = "Vec" -> charge_budget(s.h, "HostVecAllocCell", Len(ho.val))
         [] ho.type = "Map" -> charge_budget(s.h, "HostMapAllocCell", Len(ho.val))
         [] ho.type = "U64" -> charge_budget(s.h, "HostU64AllocCell", 1)
         [] ho.type = "Bin" -> charge_budget(s.h, "HostBinAllocCell", 32)
         [] OTHER -> Ok(s.h, VoidVal), LAMBDA c :
    Ok(c.h, ho)))

\* Faulty variant: the object is pushed before it is charged for.
add_host_object_PushFirst(h, ho) ==
  LET handle == Len(h.objects)
  IN IF ExceedsU32Max(handle) THEN Err(h, "ObjectCountExceedsU32Max")
     ELSE Then(charge_for_new_host_object([h EXCEPT !.objects = Append(@, ho)], ho), LAMBDA c :
            Ok(c.h, ObjectVal(ho.type, handle)))

\* Faulty variant: the new object replaces the last slot instead of being appended.
add_host_object_Overwrite(h, ho) ==
  LET handle == Len(h.objects)
  IN IF ExceedsU32Max(handle) THEN Err(h, "ObjectCountExceedsU32Max")
     ELSE Then(charge_for_new_host_object(h, ho), LAMBDA c :
            IF handle = 0
            THEN Ok([c.h EXCEPT !.objects = Append(@, c.val)], ObjectVal(ho.type, handle))
            ELSE Ok([c.h EXCEPT !.objects = [@ EXCEPT ![handle] = c.val]],
                    ObjectVal(ho.type, handle - 1)))

\* objects.len(), the elided objects included, as <<n \div 2^16, n % 2^16>>.
objects_len(h) ==
  LET lo == h.objects_elided[2] + Len(h.objects)
  IN <<h.objects_elided[1] + lo \div 65536, lo % 65536>>

\* n > u32::MAX for n = <<n \div 2^16, n % 2^16>>.
LenExceedsU32Max(n) == n[1] > 65535

\* Faulty variant: the handle u32::MAX itself is rejected.
add_host_object_RejectsMax(h, ho) ==
  LET handle == Len(h.objects)
  IN IF objects_len(h)[1] > 65535 \/ objects_len(h) = <<65535, 65535>>
       THEN Err(h, "ObjectCountExceedsU32Max")
     ELSE IF h.objects_refs > 0 THEN Panic(h, "already borrowed: BorrowMutError")
     ELSE Then(charge_for_new_host_object(h, ho), LAMBDA c :
            Ok([c.h EXCEPT !.objects = Append(@, c.val)], ObjectVal(ho.type, handle)))

\* Host::add_host_object: the handle is the table length before the push
\* (written as the place among the objects held one by one);
\* objects.borrow_mut() comes before the charge, and panics when a Ref of the
\* cell is live.
add_host_object(h, ho) ==
  LET handle == Len(h.objects)
  IN IF LenExceedsU32Max(objects_len(h)) THEN Err(h, "ObjectCountExceedsU32Max")
     ELSE IF h.objects_refs > 0 THEN Panic(h, "already borrowed: BorrowMutError")
     ELSE Then(charge_for_new_host_object(h, ho), LAMBDA c :
            Ok([c.h EXCEPT !.objects = Append(@, c.val)], ObjectVal(ho.type, handle)))

\* Host::unchecked_visit_val_obj: charge, then objects.get(index) as a sequence
\* (<<>> for None, <<object>> for Some).
unchecked_visit_val_obj(h, handle) ==
  Then(charge_budget(h, "VisitObject", 1), LAMBDA c :
    Ok(c.h, IF handle + 1 \in 1..Len(c.h.objects)
              THEN <<c.h.objects[handle + 1]>> ELSE <<>>))

\* Faulty variant: the variant of the object is not looked at.
visit_obj_AnyVariant(h, handle, type) ==
  Then(unchecked_visit_val_obj(h, handle), LAMBDA v :
    IF v.val = <<>> THEN Err(v.h, "UnknownReference")
    ELSE Ok(v.h, v.val[1]))

\* Host::visit_obj for the host object type `type`; val is the object visited.
visit_obj(h, handle, type) ==
  Then(unchecked_visit_val_obj(h, handle), LAMBDA v :
    IF v.val = <<>> THEN Err(v.h, "UnknownReference")
    ELSE IF v.val[1].type # type THEN Err(v.h, "UnexpectedType")
    ELSE Ok(v.h, v.val[1]))

\* Ord of HostObject, derived: first the place of the variant in the enum,
\* then the payloads, sequences and maps entry by entry.
VariantRank(type) ==
  CASE type = "Vec" -> 0 [] type = "Map" -> 1 [] type = "U64" -> 2 [] OTHER -> 4

RECURSIVE PayloadCmp(_, _)
PayloadCmp(s, t) ==
  IF s = <<>> /\ t = <<>> THEN 0
  ELSE IF s = <<>> THEN -1
  ELSE IF t = <<>> THEN 1
  ELSE IF s[1] < t[1] THEN -1
  ELSE IF s[1] > t[1] THEN 1
  ELSE PayloadCmp(Tail(s), Tail(t))

RECURSIVE Payload(_)
Payload(o) ==
  CASE o.type = "U64" -> <<o.val>>
    [] o.type = "Map" ->
         IF o.val = <<>> THEN <<>>
         ELSE o.val[1] \o Payload([type |-> "Map", val |-> Tail(o.val)])
    [] OTHER -> o.val

\* Option<&HostObject>::cmp: None is below every Some.
cmp(ao, bo) ==
  IF ao = <<>> \/ bo = <<>>
    THEN (IF ao = <<>> THEN 0 ELSE 1) - (IF bo = <<>> THEN 0 ELSE 1)
  ELSE IF VariantRank(ao[1].type) # VariantRank(bo[1].type)
    THEN (IF VariantRank(ao[1].type) < VariantRank(bo[1].type) THEN -1 ELSE 1)
  ELSE PayloadCmp(Payload(ao[1]), Payload(bo[1]))

I64(n) == [tag |-> "I64", status |-> "", type |-> "", handle |-> n]

\* Faulty variant: Greater is mapped like Less.
obj_cmp_NoGreater(h, a, b) ==
  Then(unchecked_visit_val_obj(h, a), LAMBDA ao :
  Then(unchecked_visit_val_obj(ao.h, b), LAMBDA bo :
    Ok(bo.h, I64(IF cmp(ao.val, bo.val) = 0 THEN 0 ELSE -1))))

\* Faulty variant: a handle that is not in the table is refused.
obj_cmp_Checked(h, a, b) ==
  Then(unchecked_visit_val_obj(h, a), LAMBDA ao :
  Then(unchecked_visit_val_obj(ao.h, b), LAMBDA bo :
    IF ao.val = <<>> \/ bo.val = <<>> THEN Err(bo.h, "UnknownReference")
    ELSE Ok(bo.h, I64(CASE cmp(ao.val, bo.val) < 0 -> -1
                        [] cmp(ao.val, bo.val) = 0 -> 0
                        [] OTHER -> 1))))

\* CheckedEnv::obj_cmp: both handles are visited unchecked and the two
\* Option<&HostObject> compared.
obj_cmp(h, a, b) ==
  Then(unchecked_visit_val_obj(h, a), LAMBDA ao :
  Then(unchecked_visit_val_obj(ao.h, b), LAMBDA bo :
    Ok(bo.h, I64(CASE cmp(ao.val, bo.val) < 0 -> -1
                   [] cmp(ao.val, bo.val) = 0 -> 0
                   [] OTHER -> 1))))

\* Host::get_current_contract_id over with_current_frame.
get_current_contract_id(h) ==
  IF h.context = <<>> THEN Err(h, "NoContractRunning")
  ELSE LET frame == h.context[Len(h.context)]
       IN CASE frame.kind = "HostFunction" -> Err(h, "GeneralError")
            [] frame.kind = "Token" ->
                 Then(charge_budget(h, "BytesClone", 32), LAMBDA c :
                   Ok(c.h, frame.id))
            [] OTHER -> Ok(h, frame.id)

\* CheckedEnv::get_current_contract
get_current_contract(h) ==
  Then(get_current_contract_id(h), LAMBDA id :
    add_host_object(id.h, BinObj(id.val)))

\* The frames with_frame is called with: Frame::TestContract of a registered
\* contract, Frame::Token of the token contract c2, Frame::HostFunction.
TokenFrame(id) == [kind |-> "Token", id |-> id]
HostFunctionFrame(hf) == [kind |-> "HostFunction", id |-> hf]
Frames == {TestContract("c1"), TokenFrame("c2"), HostFunctionFrame("Call")}

\* Faulty variant: the frame looked at is the topmost one.
get_invoking_contract_Top(h) ==
  LET frames == h.context
      hash == IF Len(frames) >= 2
                THEN IF frames[Len(frames)].kind = "HostFunction"
                       THEN Err(h, "GeneralError")
                       ELSE Ok(h, frames[Len(frames)].id)
                ELSE Err(h, "GeneralError")
  IN Then(hash, LAMBDA id : add_host_object(id.h, BinObj(id.val)))

\* CheckedEnv::get_invoking_contract: the frame below the topmost one; the id of
\* a Token or TestContract frame is cloned without a charge.
get_invoking_contract(h) ==
  LET frames == h.context
      hash == IF Len(frames) >= 2
                THEN IF frames[Len(frames) - 1].kind = "HostFunction"
                       THEN Err(h, "GeneralError")
                       ELSE Ok(h, frames[Len(frames) - 1].id)
                ELSE Err(h, "GeneralError")
  IN Then(hash, LAMBDA id : add_host_object(id.h, BinObj(id.val)))

\* CheckedEnv::obj_from_u64
obj_from_u64(h, u) == add_host_object(h, U64Obj(u))

\* CheckedEnv::vec_new (capacity void)
vec_new(h) == add_host_object(h, VecObj(<<>>))

\* CheckedEnv::log_value
log_value(h, v) == record_debug_event(h, [msg |-> "log", args |-> <<U32Val(v)>>])

\* --------------------------------------------------------------- containers
\* A map object holds its entries <<key, value>> in the order of their keys.
MapObj(m) == [type |-> "Map", val |-> m]

\* OrdMap::remove and OrdMap::insert on the entries of a map.
MapRemove(m, k) == SelectSeq(m, LAMBDA e : e[1] # k)
MapInsert(m, k, v) ==
  SelectSeq(m, LAMBDA e : e[1] < k) \o << <<k, v>> >> \o SelectSeq(m, LAMBDA e : e[1] > k)

\* OrdMap::get_prev and OrdMap::get_next: the entry of k when k is a key,
\* otherwise the entry before or after the place of k; <<>> for None.
get_prev(m, k) ==
  LET below == SelectSeq(m, LAMBDA e : e[1] <= k)
  IN IF below = <<>> THEN <<>> ELSE <<below[Len(below)]>>

get_next(m, k) ==
  LET above == SelectSeq(m, LAMBDA e : e[1] >= k)
  IN IF above = <<>> THEN <<>> ELSE <<above[1]>>

\* Vec::remove(i) and Vec::insert(i, x), i counted from 0.
SeqRemove(s, i) == SubSeq(s, 1, i) \o SubSeq(s, i + 2, Len(s))
SeqInsert(s, i, x) == SubSeq(s, 1, i) \o <<x>> \o SubSeq(s, i + 1, Len(s))

\* A metered container operation: its charge, then its result.
metered(h, ty, input, new) ==
  Then(charge_budget(h, ty, input), LAMBDA c :
    Ok(c.h, new))

\* metered_clone of the container, then one more charged operation giving `new`.
clone_then(h, ty, input, new) ==
  Then(metered(h, "MeteredClone", 1, new), LAMBDA c :
    metered(c.h, ty, input, new))

\* The end shared by the mutating container functions: n is what visit_obj
\* returned for the closure, and its value goes to add_host_object.
copy_on_write(type, n) ==
  Then(n, LAMBDA r :
    add_host_object(r.h, [type |-> type, val |-> r.val]))

\* visit_obj with a closure that only clones the container visited.
copy_on_write_visit(h, handle, type) ==
  Then(visit_obj(h, handle, type), LAMBDA o :
    metered(o.h, "MeteredClone", 1, o.val.val))

\* CheckedEnv::vec_push
vec_push(h, v, x) ==
  copy_on_write("Vec",
    Then(visit_obj(h, v, "Vec"), LAMBDA o :
      clone_then(o.h, "VecPushBack", Len(o.val.val), Append(o.val.val, x))))

\* The Ref `r` of unchecked_visit_val_obj, live while the closure of a visit
\* runs and dropped when it returns.
Ref(h) == [h EXCEPT !.objects_refs = @ + 1]
DropRef(r) == [r EXCEPT !.h.objects_refs = @ - 1]

RECURSIVE vec_push_all(_, _, _)
\* The loop of map_keys and map_values: vec = vec_push(vec, x)? for every x.
vec_push_all(h, vec, xs) ==
  IF xs = <<>> THEN Ok(h, vec)
  ELSE Then(vec_push(h, vec.handle, xs[1]), LAMBDA v : vec_push_all(v.h, v.val, Tail(xs)))

\* CheckedEnv::map_keys: vec_new and vec_push are called inside the closure
\* of the visit of the map.
map_keys(h, m) ==
  Then(visit_obj(h, m, "Map"), LAMBDA o :
    DropRef(Then(vec_new(Ref(o.h)), LAMBDA vec :
      vec_push_all(vec.h, vec.val, [i \in 1..Len(o.val.val) |-> o.val.val[i][1]]))))

\* CheckedEnv::map_values
map_values(h, m) ==
  Then(visit_obj(h, m, "Map"), LAMBDA o :
    DropRef(Then(vec_new(Ref(o.h)), LAMBDA vec :
      vec_push_all(vec.h, vec.val, [i \in 1..Len(o.val.val) |-> o.val.val[i][2]]))))

\* Faulty variant: the first container is extended in place.
append_objects_InPlace(h, h1, h2, type, ty) ==
  Then(copy_on_write_visit(h, h1, type), LAMBDA a :
  Then(copy_on_write_visit(a.h, h2, type), LAMBDA b :
    Ok([b.h EXCEPT !.objects[h1 + 1] = [type |-> type, val |-> a.val \o b.val]],
       ObjectVal(type, h1))))

\* The same for vec_append and binary_append, which visit and clone a second
\* container before the u32 overflow check and the append.
append_objects(h, h1, h2, type, ty) ==
  Then(copy_on_write_visit(h, h1, type), LAMBDA a :
  Then(copy_on_write_visit(a.h, h2, type), LAMBDA b :
    IF ExceedsU32Max(Len(a.val) + Len(b.val))
    THEN Err(b.h, "InputArgsInvalid")
    ELSE Then(metered(b.h, ty, Len(a.val) + Len(b.val), a.val \o b.val), LAMBDA n :
           add_host_object(n.h, [type |-> type, val |-> n.val]))))

\* Faulty variant: the key found by get_prev is returned as it is.
map_prev_key_Closest(h, m, k) ==
  Then(visit_obj(h, m, "Map"), LAMBDA o :
  Then(metered(o.h, "MapGetPrev", Len(o.val.val), get_prev(o.val.val, k)), LAMBDA p :
    IF p.val = <<>> THEN Ok(p.h, StatusVal("UnknownError"))
    ELSE Ok(p.h, U32Val(p.val[1][1]))))

\* CheckedEnv::map_prev_key; extract finds the key, which get_prev returned.
map_prev_key(h, m, k) ==
  Then(visit_obj(h, m, "Map"), LAMBDA o :
    LET hm == o.val.val
    IN Then(metered(o.h, "MapGetPrev", Len(hm), get_prev(hm, k)), LAMBDA p :
         IF p.val = <<>> THEN Ok(p.h, StatusVal("UnknownError"))
         ELSE IF p.val[1][1] # k THEN Ok(p.h, U32Val(p.val[1][1]))
         ELSE LET pk == p.val[1][1]
              IN Then(clone_then(p.h, "MapExtract", Len(hm), MapRemove(hm, pk)), LAMBDA c :
                 Then(metered(c.h, "MapGetPrev", Len(c.val), get_prev(c.val, pk)), LAMBDA q :
                   IF q.val = <<>> THEN Ok(q.h, StatusVal("UnknownError"))
                   ELSE Ok(q.h, U32Val(q.val[1][1]))))))

\* CheckedEnv::map_next_key
map_next_key(h, m, k) ==
  Then(visit_obj(h, m, "Map"), LAMBDA o :
    LET hm == o.val.val
    IN Then(metered(o.h, "MapGetNext", Len(hm), get_next(hm, k)), LAMBDA p :
         IF p.val = <<>> THEN Ok(p.h, StatusVal("UnknownError"))
         ELSE IF p.val[1][1] # k THEN Ok(p.h, U32Val(p.val[1][1]))
         ELSE LET pk == p.val[1][1]
              IN Then(clone_then(p.h, "MapExtract", Len(hm), MapRemove(hm, pk)), LAMBDA c :
                 Then(metered(c.h, "MapGetNext", Len(c.val), get_next(c.val, pk)), LAMBDA q :
                   IF q.val = <<>> THEN Ok(q.h, StatusVal("UnknownError"))
                   ELSE Ok(q.h, U32Val(q.val[1][1]))))))

\* MeteredOrdMap::get_min and ::get_max: the first and the last entry in the
\* order of the keys (<<>> for None).
get_min(m) == IF m = <<>> THEN <<>> ELSE <<m[1]>>
get_max(m) == IF m = <<>> THEN <<>> ELSE <<m[Len(m)]>>

\* CheckedEnv::map_min_key
map_min_key(h, m) ==
  Then(visit_obj(h, m, "Map"), LAMBDA o :
  Then(metered(o.h, "MapGetMin", Len(o.val.val), get_min(o.val.val)), LAMBDA p :
    IF p.val = <<>> THEN Ok(p.h, StatusVal("UnknownError"))
    ELSE Ok(p.h, U32Val(p.val[1][1]))))

\* Faulty variant: the key of get_min is returned.
map_max_key_Min(h, m) ==
  Then(visit_obj(h, m, "Map"), LAMBDA o :
  Then(metered(o.h, "MapGetMax", Len(o.val.val), get_min(o.val.val)), LAMBDA p :
    IF p.val = <<>> THEN Ok(p.h, StatusVal("UnknownError"))
    ELSE Ok(p.h, U32Val(p.val[1][1]))))

\* CheckedEnv::map_max_key
map_max_key(h, m) ==
  Then(visit_obj(h, m, "Map"), LAMBDA o :
  Then(metered(o.h, "MapGetMax", Len(o.val.val), get_max(o.val.val)), LAMBDA p :
    IF p.val = <<>> THEN Ok(p.h, StatusVal("UnknownError"))
    ELSE Ok(p.h, U32Val(p.val[1][1]))))

\* ----------------------------------------------------------------- storage
Absent == <<"absent">>     \* the overlay has no entry for the key
Deleted == <<"none">>      \* the overlay holds None for the key (a delete)
Some(v) == <<"some", v>>   \* the overlay holds Some(entry with value v)

\* The footprint of a deployment: whether one was passed, and the keys it
\* declares for reading only and for reading and writing.
NoFootprint == [passed |-> FALSE, readonly |-> {}, readwrite |-> {}]

\* Faulty variant: a key the footprint does not declare may be read.
enforce_access_ReadsAll(h, key, write) ==
  CASE ~h.footprint.passed -> Ok(h, VoidVal)
    [] key \in h.footprint.readwrite -> Ok(h, VoidVal)
    [] ~write -> Ok(h, VoidVal)
    [] key \in h.footprint.readonly -> Err(h, "ReadwriteAccessToReadonlyEntry")
    [] OTHER -> Err(h, "AccessToUnknownEntry")

\* Access control of Storage: with a footprint, a key it does not declare is
\* not accessed and a key it declares for reading only is not written.
enforce_access(h, key, write) ==
  CASE ~h.footprint.passed -> Ok(h, VoidVal)
    [] key \in h.footprint.readwrite -> Ok(h, VoidVal)
    [] key \in h.footprint.readonly ->
         IF write THEN Err(h, "ReadwriteAccessToReadonlyEntry") ELSE Ok(h, VoidVal)
    [] OTHER -> Err(h, "AccessToUnknownEntry")

\* Host::from_host_val for a non-object value: one ValXdrConv unit.
from_host_val(h, v) ==
  Then(charge_budget(h, "ValXdrConv", 1), LAMBDA c :
    Ok(c.h, v))

\* contract_data_key_from_rawval: (current contract id, key as ScVal).
contract_data_key_from_rawval(h, k) ==
  Then(get_current_contract_id(h), LAMBDA id :
  Then(from_host_val(id.h, k), LAMBDA c :
    Ok(c.h, <<id.val, k>>)))

\* Storage::put and Storage::del on the overlay map, each a metered map insert.
Storage_put(h, key, entry) ==
  Then(enforce_access(h, key, TRUE), LAMBDA a :
  Then(charge_budget(a.h, "ImMapMutEntry", 1), LAMBDA c :
    Ok([c.h EXCEPT !.storage = [@ EXCEPT ![key] = entry]], VoidVal)))

Storage_del(h, key) == Storage_put(h, key, Deleted)

\* CheckedEnv::put_contract_data
put_contract_data(h, k, v) ==
  Then(contract_data_key_from_rawval(h, k), LAMBDA key :
  Then(get_current_contract_id(key.h), LAMBDA id :
  Then(from_host_val(id.h, k), LAMBDA ck :
  Then(from_host_val(ck.h, v), LAMBDA cv :
    Storage_put(cv.h, key.val, Some(v))))))

\* Faulty variant: the key is computed and nothing is deleted.
del_contract_data_KeepsEntry(h, k) ==
  Then(contract_data_key_from_rawval(h, k), LAMBDA key :
    Ok(key.h, VoidVal))

\* CheckedEnv::del_contract_data
del_contract_data(h, k) ==
  Then(contract_data_key_from_rawval(h, k), LAMBDA key :
    Storage_del(key.h, key.val))

\* Host::to_host_val for a non-object value: one ValXdrConv unit.
to_host_val(h, v) ==
  Then(charge_budget(h, "ValXdrConv", 1), LAMBDA c :
    Ok(c.h, U32Val(v)))

\* storage_key_from_rawval: the same key, for the reads.
storage_key_from_rawval(h, k) == contract_data_key_from_rawval(h, k)

\* Storage::get and Storage::has on the overlay map, each a metered map lookup;
\* a key with no entry and a deleted key are both missing.
Storage_get(h, key) ==
  Then(enforce_access(h, key, FALSE), LAMBDA a :
  Then(charge_budget(a.h, "ImMapImmutEntry", 1), LAMBDA c :
    IF c.h.storage[key] \in {Absent, Deleted} THEN Err(c.h, "MissingValue")
    ELSE Ok(c.h, c.h.storage[key][2])))

Storage_has(h, key) ==
  Then(enforce_access(h, key, FALSE), LAMBDA a :
  Then(charge_budget(a.h, "ImMapImmutEntry", 1), LAMBDA c :
    Ok(c.h, BoolVal(c.h.storage[key] \notin {Absent, Deleted}))))

\* CheckedEnv::has_contract_data
has_contract_data(h, k) ==
  Then(storage_key_from_rawval(h, k), LAMBDA key :
    Storage_has(key.h, key.val))

\* CheckedEnv::get_contract_data; every entry of the overlay is contract data.
get_contract_data(h, k) ==
  Then(storage_key_from_rawval(h, k), LAMBDA key :
  Then(Storage_get(key.h, key.val), LAMBDA e :
    to_host_val(e.h, e.val)))

\* ------------------------------------------------------------ invocation
\* hash_from_obj_input: the contract id held by a binary object.
hash_from_obj_input(h, obj) ==
  Then(visit_obj(h, obj, "Bin"), LAMBDA v :
    Ok(v.h, v.val.val))

\* id_preimage_from_contract: the bytes of the domain separator (0), of the
\* creating contract and of the salt.
id_preimage_from_contract(id, salt) == <<0, IF id = "c1" THEN 7 ELSE 8>> \o salt

\* SHA-256 of a byte string: a fixed digest for each input, different for
\* different inputs (the digest keeps the input behind a marker byte).
sha256(bytes) == <<9>> \o bytes

\* contract_code_ledger_key: the key of the code entry of the contract whose
\* id is the digest given.
contract_code_ledger_key(digest) ==
  << CASE digest = sha256(id_preimage_from_contract("c1", <<1>>)) -> "h1"
       [] digest = sha256(id_preimage_from_contract("c1", <<2>>)) -> "h2"
       [] OTHER -> "h0",
     "ContractCodeWasm" >>

\* Faulty variant: the code entry is written without looking for one.
create_contract_with_id_Overwrites(h, contract, id_obj) ==
  Then(hash_from_obj_input(h, id_obj), LAMBDA id :
  Then(charge_budget(id.h, "BytesClone", 32), LAMBDA c :
    Storage_put(c.h, contract_code_ledger_key(id.val), Some(contract))))

\* Host::create_contract_with_id; store_contract_code is a put of the code.
create_contract_with_id(h, contract, id_obj) ==
  Then(hash_from_obj_input(h, id_obj), LAMBDA id :
  Then(charge_budget(id.h, "BytesClone", 32), LAMBDA c :
  Then(Storage_has(c.h, contract_code_ledger_key(id.val)), LAMBDA e :
    IF e.val = BoolVal(TRUE) THEN Err(e.h, "GeneralError")
    ELSE Storage_put(e.h, contract_code_ledger_key(id.val), Some(contract)))))

\* CheckedEnv::compute_hash_sha256 on a binary object.
compute_hash_sha256(h, x) ==
  Then(visit_obj(h, x, "Bin"), LAMBDA v :
    add_host_object(v.h, BinObj(sha256(v.val.val))))

\* Host::create_contract_with_id_preimage
create_contract_with_id_preimage(h, contract, id_preimage) ==
  Then(add_host_object(h, BinObj(id_preimage)), LAMBDA p :
  Then(compute_hash_sha256(p.h, p.val.handle), LAMBDA id_obj :
  Then(create_contract_with_id(id_obj.h, contract, id_obj.val.handle), LAMBDA w :
    Ok(w.h, id_obj.val))))

\* CheckedEnv::create_contract_from_contract; uint256_from_obj_input reads the
\* salt as hash_from_obj_input reads an id.
create_contract_from_contract(h, v, salt) ==
  Then(get_current_contract_id(h), LAMBDA id :
  Then(hash_from_obj_input(id.h, salt), LAMBDA s :
  Then(visit_obj(s.h, v, "Bin"), LAMBDA wasm :
    create_contract_with_id_preimage(wasm.h, wasm.val.val,
      id_preimage_from_contract(id.val, s.val)))))

\* CheckedEnv::call and Host::call_n up to the with_frame of the callee: unpack
\* the argument vector, read the contract id. val is the callee's frame.
call_args(h, contract, args) ==
  Then(visit_obj(h, args, "Vec"), LAMBDA a :
  Then(charge_budget(a.h, "CallArgsUnpack", Len(a.val.val)), LAMBDA c :
  Then(hash_from_obj_input(c.h, contract), LAMBDA id :
    Ok(id.h, TestContract(id.val)))))

\* CheckedEnv::try_call after `call` returned r: an error is recorded as a debug
\* event and handed back as a status value.
try_call_catch(r) ==
  IF r.res = "Err"
    THEN Then(record_debug_event(r.h, [msg |-> "try_call got error from callee contract",
                                        args |-> <<r.val>>]), LAMBDA e :
           Ok(e.h, r.val))
    ELSE r

\* ------------------------------------------------------- invoke_function
\* ScVal arguments of invoke_function: Object(Some(Bytes b)), Object(None),
\* Symbol and U32.
ScObject(b) == [sc |-> "Object", v |-> <<b>>]
ScObjectNone == [sc |-> "Object", v |-> <<>>]
ScSymbol(f) == [sc |-> "Symbol", v |-> <<f>>]
ScU32(n) == [sc |-> "U32", v |-> <<n>>]

\* ScVal::Object(Some(_))
IsSomeObject(a) == a.sc = "Object" /\ a.v # <<>>

HostFunctions == {"Call", "CreateContract"}

\* Faulty variant: arguments after the fourth object are let through.
invoke_function_raw_matches_Prefix(hf, args) ==
  IF hf = "Call"
    THEN Len(args) >= 2 /\ IsSomeObject(args[1]) /\ args[2].sc = "Symbol"
    ELSE Len(args) >= 4 /\ \A i \in 1..4 : IsSomeObject(args[i])

\* The slice patterns of Host::invoke_function_raw:
\* [Object(Some), Symbol, rest @ ..] for Call, four Object(Some) for CreateContract.
invoke_function_raw_matches(hf, args) ==
  IF hf = "Call"
    THEN Len(args) >= 2 /\ IsSomeObject(args[1]) /\ args[2].sc = "Symbol"
    ELSE Len(args) = 4 /\ \A i \in 1..4 : IsSomeObject(args[i])

\* Host::to_host_obj for ScObject::Bytes: ValXdrConv, the metered clone of the
\* bytes, the new object.
to_host_obj(h, ob) ==
  Then(charge_budget(h, "ValXdrConv", 1), LAMBDA c :
  Then(charge_budget(c.h, "BytesClone", 1), LAMBDA b :
    add_host_object(b.h, BinObj(ob.v[1]))))

RECURSIVE to_host_vals(_, _)
\* rest.iter().map(to_host_val).collect(): one conversion after the other.
to_host_vals(h, rest) ==
  IF rest = <<>> THEN Ok(h, VoidVal)
  ELSE Then(charge_budget(h, "ValXdrConv", 1), LAMBDA c : to_host_vals(c.h, Tail(rest)))

\* Host::call_contract_fn for a contract that is not a registered test
\* contract: its code entry is read from storage; Wasm code cannot be
\* dispatched without the vm feature. (Every code entry of the model is Wasm.)
call_contract_fn(h, id) ==
  Then(charge_budget(h, "BytesClone", 32), LAMBDA c :
  Then(Storage_get(c.h, <<id, "ContractCodeWasm">>), LAMBDA e :
    Err(e.h, "GeneralError")))

\* Host::call_n up to its with_frame: val is the frame of the callee.
call_n(h, contract) ==
  Then(hash_from_obj_input(h, contract), LAMBDA id :
    IF id.val \in ContractIds THEN Ok(id.h, TestContract(id.val))
    ELSE call_contract_fn(id.h, id.val))

\* The closure of the Call arm up to the with_frame of call_n.
invoke_call(h, args) ==
  Then(to_host_obj(h, args[1]), LAMBDA object :
  Then(charge_budget(object.h, "CallArgsUnpack", Len(args) - 2), LAMBDA c :
  Then(to_host_vals(c.h, SubSeq(args, 3, Len(args))), LAMBDA a :
    call_n(a.h, object.val.handle))))

\* An ed25519 signature of msg that the public key `key` verifies.
ed25519_sign(key, msg) == <<5>> \o key \o msg

\* id_preimage_from_ed25519: the bytes of the domain separator (1), of the key
\* and of the salt.
id_preimage_from_ed25519(key, salt) == <<1>> \o key \o salt

\* CheckedEnv::verify_sig_ed25519
verify_sig_ed25519(h, x, k, s) ==
  Then(hash_from_obj_input(h, k), LAMBDA public_key :
  Then(hash_from_obj_input(public_key.h, s), LAMBDA sig :
  Then(visit_obj(sig.h, x, "Bin"), LAMBDA bin :
  Then(charge_budget(bin.h, "VerifyEd25519Sig", Len(bin.val.val)), LAMBDA c :
    IF sig.val = ed25519_sign(public_key.val, bin.val.val)
    THEN Ok(c.h, VoidVal)
    ELSE Err(c.h, "GeneralError")))))

\* CheckedEnv::create_contract_from_ed25519
create_contract_from_ed25519(h, v, salt, key, sig) ==
  Then(hash_from_obj_input(h, salt), LAMBDA salt_val :
  Then(hash_from_obj_input(salt_val.h, key), LAMBDA key_val :
  Then(visit_obj(key_val.h, v, "Bin"), LAMBDA bin :
  Then(charge_budget(bin.h, "BytesConcat", 1 + Len(salt_val.val) + Len(bin.val.val)), LAMBDA c :
  Then(add_host_object(c.h, BinObj(<<2>> \o salt_val.val \o bin.val.val)), LAMBDA params :
  Then(compute_hash_sha256(params.h, params.val.handle), LAMBDA hash :
  Then(verify_sig_ed25519(hash.h, hash.val.handle, key, sig), LAMBDA ok :
  Then(visit_obj(ok.h, v, "Bin"), LAMBDA wasm :
    create_contract_with_id_preimage(wasm.h, wasm.val.val,
      id_preimage_from_ed25519(key_val.val, salt_val.val))))))))))

\* The closure of the CreateContract arm.
invoke_create_contract(h, args) ==
  Then(to_host_obj(h, args[1]), LAMBDA contract :
  Then(to_host_obj(contract.h, args[2]), LAMBDA salt :
  Then(to_host_obj(salt.h, args[3]), LAMBDA key :
  Then(to_host_obj(key.h, args[4]), LAMBDA signature :
    create_contract_from_ed25519(signature.h, contract.val.handle, salt.val.handle,
      key.val.handle, signature.val.handle)))))

\* Host::invoke_function after invoke_function_raw returned r.
invoke_function_convert(r) ==
  Then(r, LAMBDA rv : from_host_val(rv.h, rv.val))

\* ------------------------------------------------------------------ actions
\* ---------------------------------------------------------- contract events
\* events.rs: the limits on the topics of a contract event.
CONTRACT_EVENT_TOPICS_LIMIT == 4
TOPIC_BYTES_LENGTH_LIMIT == 32

\* Status OK as a RawVal.
OK == StatusVal("OK")

\* Result::ok(): an error becomes None (<<>>), a value v becomes Some(v) (<<v>>).
ok(r) == [r EXCEPT !.res = "Ok", !.val = IF r.res = "Ok" THEN <<r.val>> ELSE <<>>]

\* validate_event_topic: a topic that is an object must be neither a Vec nor a
\* Map nor a byte string above TOPIC_BYTES_LENGTH_LIMIT.
validate_event_topic(h, topic) ==
  IF topic.tag # "Object" THEN Ok(h, VoidVal)
  ELSE Then(unchecked_visit_val_obj(h, topic.handle), LAMBDA v :
         IF v.val = <<>> THEN Err(v.h, "UnknownReference")
         ELSE IF v.val[1].type \in {"Vec", "Map"} THEN Err(v.h, "GeneralError")
         ELSE IF v.val[1].type = "Bin" /\ Len(v.val[1].val) > TOPIC_BYTES_LENGTH_LIMIT
           THEN Err(v.h, "GeneralError")
         ELSE Ok(v.h, VoidVal))

\* event_topic_from_rawval: the validated topic as a ScVal; an object is
\* converted to what it holds.
event_topic_from_rawval(h, topic) ==
  Then(validate_event_topic(h, topic), LAMBDA c :
  Then(charge_budget(c.h, "ValXdrConv", 1), LAMBDA x :
    IF topic.tag # "Object" THEN Ok(x.h, ScU32(topic.handle))
    ELSE Then(unchecked_visit_val_obj(x.h, topic.handle), LAMBDA v :
           Ok(v.h, ScObject(v.val[1].val)))))

\* The topics of a vector converted one by one; val is the ScVec built so far.
RECURSIVE event_topics_from(_, _, _)
event_topics_from(h, rest, sv) ==
  IF rest = <<>> THEN Ok(h, sv)
  ELSE Then(event_topic_from_rawval(h, rest[1]), LAMBDA t :
         event_topics_from(t.h, Tail(rest), Append(sv, t.val)))

\* Faulty variant: the number of topics is not limited.
event_topics_from_host_obj_NoLimit(h, topics) ==
  Then(visit_obj(h, topics, "Vec"), LAMBDA vv :
    event_topics_from(vv.h, vv.val.val, <<>>))

\* event_topics_from_host_obj: the vector behind the handle, of at most
\* CONTRACT_EVENT_TOPICS_LIMIT topics, as a ScVec.
event_topics_from_host_obj(h, topics) ==
  Then(visit_obj(h, topics, "Vec"), LAMBDA vv :
    IF Len(vv.val.val) > CONTRACT_EVENT_TOPICS_LIMIT THEN Err(vv.h, "UnknownError")
    ELSE event_topics_from(vv.h, vv.val.val, <<>>))

\* Events::record_contract_event
Events_record_contract_event(evs, ce) == Append(evs, ce)

\* Host::record_contract_event: the event carries the id of the current
\* contract when there is one; it is recorded, then charged for.
record_contract_event(h, type_, topics, data) ==
  Then(ok(get_current_contract_id(h)), LAMBDA id :
    charge_budget([id.h EXCEPT !.events =
                     Events_record_contract_event(@, [type |-> type_, contract_id |-> id.val,
                                                      topics |-> topics, data |-> data])],
                  "HostEventDebug", 1))

\* Faulty variant: the event is recorded as a Contract event.
system_event_AsContract(h, topics, data) ==
  Then(event_topics_from_host_obj(h, topics), LAMBDA t :
  Then(from_host_val(t.h, ScU32(data)), LAMBDA d :
  Then(record_contract_event(d.h, "Contract", t.val, d.val), LAMBDA r :
    Ok(r.h, OK))))

\* Host::system_event
system_event(h, topics, data) ==
  Then(event_topics_from_host_obj(h, topics), LAMBDA t :
  Then(from_host_val(t.h, ScU32(data)), LAMBDA d :
  Then(record_contract_event(d.h, "System", t.val, d.val), LAMBDA r :
    Ok(r.h, OK))))

\* CheckedEnv::contract_event
contract_event(h, topics, data) ==
  Then(event_topics_from_host_obj(h, topics), LAMBDA t :
  Then(from_host_val(t.h, ScU32(data)), LAMBDA d :
  Then(record_contract_event(d.h, "Contract", t.val, d.val), LAMBDA r :
    Ok(r.h, OK))))

\* ---------------------------------------------------------------- accounts
\* xdr::SignerKey and xdr::Signer
SignerKey(type, key) == [type |-> type, key |-> key]
Signer(key, weight) == [key |-> key, weight |-> weight]

\* The account entries of the ledger the host reads (no host function writes
\* one): thresholds holds the master weight, then low, medium, high.
AccountEntries ==
  << [account_id |-> <<1>>, thresholds |-> <<5, 1, 2, 3>>,
      signers |-> << Signer(SignerKey("Ed25519", <<1>>), 9),
                     Signer(SignerKey("HashX", <<2>>), 4),
                     Signer(SignerKey("Ed25519", <<2>>), 7) >>],
     [account_id |-> <<2>>, thresholds |-> <<0, 0, 0, 0>>,
      signers |-> << Signer(SignerKey("PreAuthTx", <<3>>), 6) >>] >>

\* to_u256: the bytes of a binary object as a Uint256.
to_u256(h, obj) ==
  Then(visit_obj(h, obj, "Bin"), LAMBDA v :
    Ok(v.h, v.val.val))

\* load_account: the account entry of the ledger under the account id held by
\* the object.
load_account(h, a) ==
  Then(visit_obj(h, a, "Bin"), LAMBDA v :
  Then(charge_budget(v.h, "ImMapImmutEntry", 1), LAMBDA c :
    IF \E i \in DOMAIN AccountEntries : AccountEntries[i].account_id = v.val.val
    THEN Ok(c.h, CHOOSE ae \in {AccountEntries[i] : i \in DOMAIN AccountEntries} :
                   ae.account_id = v.val.val)
    ELSE Err(c.h, "MissingValue")))

\* Faulty variant: the type of the signer key is not looked at.
signer_weight_AnyKeyType(signers, target_signer) ==
  IF \E i \in DOMAIN signers : signers[i].key.key = target_signer
  THEN LET first == CHOOSE i \in DOMAIN signers :
                      /\ signers[i].key.key = target_signer
                      /\ \A j \in 1..(i - 1) : signers[j].key.key # target_signer
       IN signers[first].weight
  ELSE 0

\* The loop over the signers of account_get_signer_weight: the weight of the
\* first Ed25519 signer with the target key, 0 when there is none.
signer_weight(signers, target_signer) ==
  IF \E i \in DOMAIN signers : signers[i].key = SignerKey("Ed25519", target_signer)
  THEN LET first == CHOOSE i \in DOMAIN signers :
                      /\ signers[i].key = SignerKey("Ed25519", target_signer)
                      /\ \A j \in 1..(i - 1) :
                           signers[j].key # SignerKey("Ed25519", target_signer)
       IN signers[first].weight
  ELSE 0

\* CheckedEnv::account_get_signer_weight
account_get_signer_weight(h, a, s) ==
  Then(to_u256(h, s), LAMBDA target_signer :
  Then(load_account(target_signer.h, a), LAMBDA ae :
  Then(charge_budget(ae.h, "BytesClone", 32), LAMBDA c :
    IF ae.val.account_id = target_signer.val
    THEN Ok(c.h, U32Val(ae.val.thresholds[1]))
    ELSE Ok(c.h, U32Val(signer_weight(ae.val.signers, target_signer.val))))))

\* ------------------------------------------------------------------ bigint
BigIntObj(n) == [type |-> "BigInt", val |-> n]

Abs(n) == IF n < 0 THEN -n ELSE n

\* MeteredBigInt::div and ::rem: one charge, then the division of BigInt, which
\* truncates toward zero (the remainder has the sign of the dividend).
BigInt_div(h, a, b) ==
  metered(h, "BigIntDivRem", 1,
          BigIntObj((IF (a < 0) = (b < 0) THEN 1 ELSE -1) * (Abs(a) \div Abs(b))))

BigInt_rem(h, a, b) ==
  metered(h, "BigIntDivRem", 1,
          BigIntObj((IF a < 0 THEN -1 ELSE 1) * (Abs(a) % Abs(b))))

\* Faulty variant: a zero divisor gives the object 0.
bigint_div_ZeroGivesZero(h, x, y) ==
  Then(visit_obj(h, x, "BigInt"), LAMBDA a :
  Then(visit_obj(a.h, y, "BigInt"), LAMBDA b :
  Then(IF b.val.val = 0 THEN Ok(b.h, BigIntObj(0))
       ELSE BigInt_div(b.h, a.val.val, b.val.val), LAMBDA res :
    add_host_object(res.h, res.val))))

\* CheckedEnv::bigint_div
bigint_div(h, x, y) ==
  Then(visit_obj(h, x, "BigInt"), LAMBDA a :
  Then(visit_obj(a.h, y, "BigInt"), LAMBDA b :
  Then(IF b.val.val = 0 THEN Err(b.h, "GeneralError")
       ELSE BigInt_div(b.h, a.val.val, b.val.val), LAMBDA res :
    add_host_object(res.h, res.val))))

\* CheckedEnv::bigint_rem
bigint_rem(h, x, y) ==
  Then(visit_obj(h, x, "BigInt"), LAMBDA a :
  Then(visit_obj(a.h, y, "BigInt"), LAMBDA b :
  Then(IF b.val.val = 0 THEN Err(b.h, "GeneralError")
       ELSE BigInt_rem(b.h, a.val.val, b.val.val), LAMBDA res :
    add_host_object(res.h, res.val))))

\* ------------------------------------------------------------ byte copies
\* Result::expect: an error becomes a panic with the message.
expect(r, msg) == IF r.res = "Err" THEN Panic(r.h, msg) ELSE r

\* Faulty variant: the vector is grown with bytes that are not the value given.
resize_Other(v, n, x) ==
  IF n > Len(v) THEN v \o [i \in 1..(n - Len(v)) |-> x + 255] ELSE SubSeq(v, 1, n)

\* Vec::resize(n, x): grown with x, or truncated, to the length n.
resize(v, n, x) ==
  IF n > Len(v) THEN v \o [i \in 1..(n - Len(v)) |-> x] ELSE SubSeq(v, 1, n)

\* vnew[b_pos..end_idx].copy_from_slice(mem)
copy_from_slice(vnew, b_pos, end_idx, mem) ==
  [i \in 1..Len(vnew) |-> IF i > b_pos /\ i <= end_idx THEN mem[i - b_pos] ELSE vnew[i]]

\* EnvBase::binary_copy_from_slice: every error is a panic.
binary_copy_from_slice(h, b, b_pos, mem) ==
  Then(expect(visit_obj(h, b, "Bin"), "access to unknown host binary object"), LAMBDA hv :
    LET end_idx == b_pos + Len(mem)
        vnew == IF end_idx > Len(hv.val.val) THEN resize(hv.val.val, end_idx, 0)
                ELSE hv.val.val
    IN IF ExceedsU32Max(end_idx) THEN Panic(hv.h, "u32 overflow")
       ELSE expect(add_host_object(hv.h, BinObj(copy_from_slice(vnew, b_pos, end_idx, mem))),
                   "unable to add host object"))

\* The linear memory of the guest VM that makes the call.
LinearMemory == <<1, 2, 2, 1>>

\* decode_vmslice: the VM of the guest with the position and the length.
decode_vmslice(h, lm_pos, len) == Ok(h, [vm |-> LinearMemory, pos |-> lm_pos, len |-> len])

\* Memory::get_into(pos, target): the bytes of the memory from pos on fill the
\* target; an error when they reach beyond the memory.
get_into(h, mem, pos, len) ==
  IF pos + len > Len(mem) THEN Err(h, "VmMemory")
  ELSE Ok(h, SubSeq(mem, pos + 1, pos + len))

\* CheckedEnv::binary_copy_from_linear_memory
binary_copy_from_linear_memory(h, b, b_pos, lm_pos, len) ==
  Then(decode_vmslice(h, lm_pos, len), LAMBDA s :
  Then(visit_obj(s.h, b, "Bin"), LAMBDA o :
  Then(metered(o.h, "BytesClone", Len(o.val.val), o.val.val), LAMBDA hv :
    LET end_idx == b_pos + s.val.len
        vnew == IF end_idx > Len(hv.val) THEN resize(hv.val, end_idx, 0) ELSE hv.val
    IN IF ExceedsU32Max(end_idx) THEN Err(hv.h, "InputArgsInvalid")
       ELSE Then(charge_budget(hv.h, "VmMemCpy", s.val.len), LAMBDA c :
            Then(get_into(c.h, s.val.vm, s.val.pos, s.val.len), LAMBDA mem :
              add_host_object(mem.h, BinObj(copy_from_slice(vnew, b_pos, end_idx, mem.val))))))))

\* ------------------------------------------------------------------ token
\* `if let Ok(x) = r { F } else { G }`: an error of r is dropped and G goes
\* on from the host as r left it. r is computed once.
IfLetOk(r, F(_), G(_)) ==
  CHOOSE y \in {CASE x.res = "Ok" -> F(x) [] x.res = "Err" -> G(x) [] OTHER -> x : x \in {r}} : TRUE

\* DataKey::Balance(id) and DataKey::State(id) as the RawVal given to the host.
DataKey_Balance(id) == <<"Balance", id>>
DataKey_State(id) == <<"State", id>>

\* The payload of the RawVal of a bool, and the bool of a RawVal.
from_bool(b) == IF b THEN 1 ELSE 0
bool_try_from(h, v) ==
  CASE v.handle = 1 -> Ok(h, TRUE)
    [] v.handle = 0 -> Ok(h, FALSE)
    [] OTHER -> Err(h, "ConversionError")

\* BigInt values of the token, by the integer they hold: from_u64, the
\* conversion of a RawVal, compare (an Ordering as -1, 0, 1), + and -.
BigInt_from_u64(h, n) == Ok(h, n)
BigInt_try_from(h, v) == Ok(h, v.handle)
BigInt_compare(h, a, b) == Ok(h, CASE a < b -> -1 [] a = b -> 0 [] OTHER -> 1)
BigInt_add(h, a, b) == Ok(h, a + b)
BigInt_sub(h, a, b) == Ok(h, a - b)

\* balance::read_balance
read_balance(h, id) ==
  IfLetOk(get_contract_data(h, DataKey_Balance(id)),
          LAMBDA balance : BigInt_try_from(balance.h, balance.val),
          LAMBDA e : BigInt_from_u64(e.h, 0))

\* balance::write_balance
write_balance(h, id, amount) ==
  Then(put_contract_data(h, DataKey_Balance(id), amount), LAMBDA p :
    Ok(p.h, VoidVal))

\* balance::read_state
read_state(h, id) ==
  IfLetOk(get_contract_data(h, DataKey_State(id)),
          LAMBDA state : bool_try_from(state.h, state.val),
          LAMBDA e : Ok(e.h, FALSE))

\* balance::write_state
write_state(h, id, is_frozen) ==
  Then(put_contract_data(h, DataKey_State(id), from_bool(is_frozen)), LAMBDA p :
    Ok(p.h, VoidVal))

\* balance::receive_balance
receive_balance(h, id, amount) ==
  Then(read_balance(h, id), LAMBDA balance :
  Then(read_state(balance.h, id), LAMBDA is_frozen :
    IF is_frozen.val THEN Err(is_frozen.h, "ContractError")
    ELSE Then(BigInt_add(is_frozen.h, balance.val, amount), LAMBDA sum :
           write_balance(sum.h, id, sum.val))))

\* Faulty variant: the balance is not compared with the amount.
spend_balance_Unchecked(h, id, amount) ==
  Then(read_balance(h, id), LAMBDA balance :
  Then(read_state(balance.h, id), LAMBDA is_frozen :
    IF is_frozen.val THEN Err(is_frozen.h, "ContractError")
    ELSE Then(BigInt_sub(is_frozen.h, balance.val, amount), LAMBDA diff :
           write_balance(diff.h, id, diff.val))))

\* balance::spend_balance
spend_balance(h, id, amount) ==
  Then(read_balance(h, id), LAMBDA balance :
  Then(read_state(balance.h, id), LAMBDA is_frozen :
    IF is_frozen.val THEN Err(is_frozen.h, "ContractError")
    ELSE Then(BigInt_compare(is_frozen.h, balance.val, amount), LAMBDA ord :
           IF ord.val = -1 THEN Err(ord.h, "ContractError")
           ELSE Then(BigInt_sub(ord.h, balance.val, amount), LAMBDA diff :
                  write_balance(diff.h, id, diff.val)))))

NoWf == <<>>

\* Draws of the units left; none is needed once the limit has been crossed.
Left == IF budget.used > budget.limit THEN {MaxLeft} ELSE 0..MaxLeft

\* Handles a guest may pass: every handle of the table and one beyond it.
Handles == 0..Len(objects)

\* Of the draws of `left` that let an operation run to its end without
\* crossing the limit, one is kept.
Exact(r) == BudgetExceeded(r.h.budget) \/ r.h.budget.limit = MaxLeft

Running == ~panicked /\ refs.strong > 0

InBounds(r) == Len(r.h.objects) <= MaxObjects /\ Len(r.h.events) <= MaxEvents

Commit(r) ==
  /\ objects' = r.h.objects
  /\ storage' = r.h.storage
  /\ context' = r.h.context
  /\ events' = r.h.events
  /\ budget' = [used |-> IF BudgetExceeded(r.h.budget) THEN 1 ELSE 0, limit |-> 0]
  /\ panicked' = (r.res = "Panic")
  /\ UNCHANGED <<ledger, refs, elided, footprint>>
  /\ issued' = IF Len(r.h.objects) > Len(issued)
                 THEN issued \o SubSeq(r.h.objects, Len(issued) + 1, Len(r.h.objects))
                 ELSE issued

\* The activation of with_frame that is live while its closure runs: the locals
\* start_depth and rp and who called it; pushed tells whether the frame was
\* pushed and the closure run; entry_events and entry_issued remember the length
\* of the event log and the number of handles issued so far at entry.
Activation(kind, a, pushed) ==
  [kind |-> kind, start_depth |-> a.start_depth, rp |-> a.rp, pushed |-> pushed,
   entry_events |-> Len(events), entry_issued |-> Len(issued)]

\* with_frame returned before its closure ran (GuardFrame or PushFrame failed).
NotEntered(kind) ==
  Activation(kind, [start_depth |-> Len(context),
                    rp |-> [objects |-> Len(objects), storage |-> storage]], FALSE)

NoArg == VoidVal
\* The arguments of a storage function, the key k and the value v (0 when it
\* takes none), in the shape of the other arguments.
DataArgs(k, v) == [tag |-> "Data", status |-> "", type |-> k, handle |-> v]
NoBody == <<>>
NoAct == <<>>

\* What ret says of the operation that completed last: its name, argument and
\* result; for an operation that went through with_frame also the result of
\* with_frame itself (wf), the result of its closure (body), its activation
\* (act), and whether pop_frame applied the rollback point (rolled).
Ret(op, arg, r) ==
  [op |-> op, arg |-> arg, res |-> r.res, val |-> r.val,
   wf |-> NoWf, body |-> NoBody, act |-> NoAct, rolled |-> FALSE]

RetFrame(op, r, w, body, act, rolled) ==
  [op |-> op, arg |-> NoArg, res |-> r.res, val |-> r.val,
   wf |-> <<[res |-> w.res, val |-> w.val]>>, body |-> body, act |-> <<act>>,
   rolled |-> rolled]

\* A host function that runs to completion inside the current body.
HostCall(op, arg, r) ==
  /\ Running
  /\ Exact(r)
  /\ InBounds(r)
  /\ Commit(r)
  /\ ret' = Ret(op, arg, r)
  /\ UNCHANGED stack

ObjFromU64 ==
  \E left \in Left, u \in U64Vals :
    HostCall("obj_from_u64", NoArg, obj_from_u64(HostImpl(left), u))

GetCurrentContract ==
  \E left \in Left :
    HostCall("get_current_contract", NoArg, get_current_contract(HostImpl(left)))

GetInvokingContract ==
  \E left \in Left :
    HostCall("get_invoking_contract", NoArg, get_invoking_contract(HostImpl(left)))

VecNew == \E left \in Left : HostCall("vec_new", NoArg, vec_new(HostImpl(left)))

LogValue ==
  \E left \in Left, v \in LogVals :
    HostCall("log_value", U32Val(v), log_value(HostImpl(left), v))

PutContractData ==
  \E left \in Left, k \in UserKeys, v \in Vals :
    HostCall("put_contract_data", DataArgs(k, v), put_contract_data(HostImpl(left), k, v))

DelContractData ==
  \E left \in Left, k \in UserKeys :
    HostCall("del_contract_data", DataArgs(k, 0), del_contract_data(HostImpl(left), k))

HasContractData ==
  \E left \in Left, k \in UserKeys :
    HostCall("has_contract_data", DataArgs(k, 0), has_contract_data(HostImpl(left), k))

GetContractData ==
  \E left \in Left, k \in UserKeys :
    HostCall("get_contract_data", DataArgs(k, 0), get_contract_data(HostImpl(left), k))

\* Entry into with_frame(frame, f) from `kind`; pre is the result of what the
\* caller did before it reached with_frame.
Enter(kind, pre) ==
  /\ Running
  /\ Len(stack) < MaxDepth
  /\ IF pre.res # "Ok"
       THEN LET f == IF kind = "try_call" THEN try_call_catch(pre) ELSE pre
            IN /\ Exact(f)
               /\ InBounds(f)
               /\ Commit(f)
               /\ ret' = Ret(kind, NoArg, f)
               /\ UNCHANGED stack
       ELSE LET w == with_frame_enter(pre.h, pre.val)
            IN IF w.res = "Ok"
                 THEN /\ Exact(w)
                      /\ Commit(w)
                      /\ stack' = Append(stack, Activation(kind, w.val, TRUE))
                      /\ ret' = Ret("push_frame", NoArg, Ok(w.h, VoidVal))
                 ELSE LET f == IF kind = "try_call" THEN try_call_catch(w) ELSE w
                      IN /\ Exact(f)
                         /\ InBounds(f)
                         /\ Commit(f)
                         /\ ret' = RetFrame(kind, f, w, NoBody, NotEntered(kind), FALSE)
                         /\ UNCHANGED stack

\* Host::with_frame called with a test-contract frame and an arbitrary closure.
WithFrame ==
  \E left \in Left, id \in ContractIds :
    Enter("with_frame", Ok(HostImpl(left), TestContract(id)))

\* Host::with_frame called with a frame of any kind.
WithFrameOf ==
  \E left \in Left, frame \in Frames :
    Enter("with_frame", Ok(HostImpl(left), frame))

\* CheckedEnv::call
Call ==
  \E left \in Left, contract \in Handles, args \in Handles :
    Enter("call", call_args(HostImpl(left), contract, args))

\* CheckedEnv::try_call
TryCall ==
  \E left \in Left, contract \in Handles, args \in Handles :
    Enter("try_call", call_args(HostImpl(left), contract, args))

\* The closure of the innermost with_frame returns (res, val): the rest of
\* with_frame runs, then the rest of call or try_call around it.
BodyReturn(res, val) ==
  /\ Running
  /\ stack # <<>>
  /\ stack[Len(stack)].kind # "call_n"
  /\ \E left \in Left :
     LET act == stack[Len(stack)]
         w == with_frame_exit(HostImpl(left), act, res, val)
         f == IF act.kind = "try_call" THEN try_call_catch(w) ELSE w
     IN /\ Exact(f)
        /\ InBounds(f)
        /\ Commit(f)
        /\ stack' = Pop(stack)
        /\ ret' = RetFrame(act.kind, f, w, <<[res |-> res, val |-> val]>>, act,
                           res = "Err" /\ ~BudgetExceeded(w.h.budget))

\* The contract function returns normally.
BodyOk == BodyReturn("Ok", VoidVal)

\* The contract function fails on its own (panic_via_status(ContractError)).
BodyFail == BodyReturn("Err", StatusVal("ContractError"))

\* The contract function propagates the error of the host call it just made.
BodyPropagate == ret.res = "Err" /\ BodyReturn("Err", ret.val)

\* ------------------------------------------------------- invoke_function
\* The argument vectors the embedder passes to invoke_function.
ArgVecs ==
  << <<ScObject("c1"), ScSymbol("f")>>,
     <<ScObject("c1"), ScSymbol("f"), ScU32(1)>>,
     <<ScSymbol("f"), ScObject("c1")>>,
     <<ScObjectNone, ScSymbol("f")>>,
     <<ScObject("h1"), ScSymbol("f")>>,
     <<ScObject(<<1>>), ScObject(<<2>>), ScObject(<<3>>), ScObject(<<4>>)>>,
     <<ScObject(<<1>>), ScObject(<<2>>), ScObject(<<3>>)>>,
     <<ScObject(<<1>>), ScObject(<<2>>), ScObject(<<3>>), ScObjectNone>>,
     <<ScObject(<<1>>), ScObject(<<2>>), ScObject(<<3>>), ScObject(<<4>>), ScObject(<<4>>)>> >>

\* The arguments of invoke_function, the host function and the place of the
\* vector in ArgVecs, in the shape of the other arguments.
InvokeArgs(hf, i) == [tag |-> "Invoke", status |-> "", type |-> hf, handle |-> i]

\* invoke_function returns f; x is what the with_frame of invoke_function_raw
\* returned, act its activation.
InvokeReturn(arg, f, x, body, act, rolled) ==
  /\ Exact(f)
  /\ InBounds(f)
  /\ Commit(f)
  /\ ret' = [RetFrame("invoke_function", f, x, body, act, rolled) EXCEPT !.arg = arg]

\* Host::invoke_function(hf, ArgVecs[i]) up to the point where the contract
\* function called starts to run, or to its end when none is called.
InvokeFunction ==
  \E left \in Left, hf \in HostFunctions, i \in DOMAIN ArgVecs :
    /\ Running
    /\ Len(stack) + 2 <= MaxDepth
    /\ LET h == HostImpl(left)
           args == ArgVecs[i]
           arg == InvokeArgs(hf, i)
           w == with_frame_enter(h, HostFunctionFrame(hf))
           c == IF hf = "Call" THEN invoke_call(w.h, args)
                               ELSE invoke_create_contract(w.h, args)
           n == IF hf = "Call" THEN Then(c, LAMBDA callee : with_frame_enter(callee.h, callee.val))
                               ELSE c
           x == IF n.res = "Panic" THEN n ELSE with_frame_exit(n.h, w.val, n.res, n.val)
       IN IF ~invoke_function_raw_matches(hf, args)
            THEN /\ InvokeReturn(arg, Err(h, "InputArgsWrongLength"),
                                 Err(h, "InputArgsWrongLength"), NoBody,
                                 NotEntered("invoke_function"), FALSE)
                 /\ UNCHANGED stack
          ELSE IF w.res # "Ok"
            THEN /\ InvokeReturn(arg, w, w, NoBody, NotEntered("invoke_function"), FALSE)
                 /\ UNCHANGED stack
          ELSE IF hf = "Call" /\ n.res = "Ok"
            THEN /\ Exact(n)
                 /\ InBounds(n)
                 /\ Commit(n)
                 /\ stack' = stack \o <<Activation("invoke_function", w.val, TRUE),
                                        Activation("call_n", n.val, TRUE)>>
                 /\ ret' = Ret("invoke_function_enter", arg, Ok(n.h, VoidVal))
          ELSE /\ InvokeReturn(arg, invoke_function_convert(x), x,
                               <<[res |-> n.res, val |-> n.val]>>,
                               Activation("invoke_function", w.val, TRUE),
                               n.res = "Err" /\ ~BudgetExceeded(x.h.budget))
               /\ UNCHANGED stack

\* The contract function called by invoke_function returns (res, val): the
\* rest of the with_frame of call_n, of the with_frame of invoke_function_raw
\* and of invoke_function. (ret.arg has 0 for the place of the vector.)
InvokeBodyReturn(res, val) ==
  /\ Running
  /\ stack # <<>>
  /\ stack[Len(stack)].kind = "call_n"
  /\ \E left \in Left :
     LET inner == stack[Len(stack)]
         act == stack[Len(stack) - 1]
         n == with_frame_exit(HostImpl(left), inner, res, val)
         x == IF n.res = "Panic" THEN n ELSE with_frame_exit(n.h, act, n.res, n.val)
     IN /\ InvokeReturn(InvokeArgs("Call", 0), invoke_function_convert(x), x,
                        <<[res |-> n.res, val |-> n.val]>>, act,
                        n.res = "Err" /\ ~BudgetExceeded(x.h.budget))
        /\ stack' = Pop(Pop(stack))

InvokeBodyOk == InvokeBodyReturn("Ok", VoidVal)

InvokeBodyFail == InvokeBodyReturn("Err", StatusVal("ContractError"))

\* ------------------------------------------------- container functions
\* Each is a host function of CheckedEnv; i, start and end are u32 values, x and
\* u the element given, k a map key.
VecPush ==
  \E left \in Left, v \in Handles, x \in Elems :
    HostCall("vec_push", ObjectVal("Vec", v), vec_push(HostImpl(left), v, x))

VecPop ==
  \E left \in Left, v \in Handles :
    HostCall("vec_pop", ObjectVal("Vec", v),
      copy_on_write("Vec",
        Then(visit_obj(HostImpl(left), v, "Vec"), LAMBDA o :
          LET h == o.h
              hv == o.val.val
          IN Then(clone_then(h, "VecPopBack", Len(hv), Pop(hv)), LAMBDA c :
               IF hv = <<>> THEN Err(c.h, "VecIndexOutOfBound") ELSE c))))

VecPut ==
  \E left \in Left, v \in Handles, i \in Indices, x \in Elems :
    HostCall("vec_put", ObjectVal("Vec", v),
      copy_on_write("Vec",
        Then(visit_obj(HostImpl(left), v, "Vec"), LAMBDA o :
          LET h == o.h
              hv == o.val.val
          IN IF i >= Len(hv) THEN Err(h, "VecIndexOutOfBound")
             ELSE clone_then(h, "VecSet", Len(hv), [hv EXCEPT ![i + 1] = x]))))

VecDel ==
  \E left \in Left, v \in Handles, i \in Indices :
    HostCall("vec_del", ObjectVal("Vec", v),
      copy_on_write("Vec",
        Then(visit_obj(HostImpl(left), v, "Vec"), LAMBDA o :
          LET h == o.h
              hv == o.val.val
          IN IF i >= Len(hv) THEN Err(h, "VecIndexOutOfBound")
             ELSE clone_then(h, "VecRemove", Len(hv), SeqRemove(hv, i)))))

VecInsert ==
  \E left \in Left, v \in Handles, i \in Indices, x \in Elems :
    HostCall("vec_insert", ObjectVal("Vec", v),
      copy_on_write("Vec",
        Then(visit_obj(HostImpl(left), v, "Vec"), LAMBDA o :
          LET h == o.h
              hv == o.val.val
          IN IF i > Len(hv) THEN Err(h, "VecIndexOutOfBound")
             ELSE clone_then(h, "VecInsert", Len(hv), SeqInsert(hv, i, x)))))

VecAppend ==
  \E left \in Left, v1 \in Handles, v2 \in Handles :
    HostCall("vec_append", ObjectVal("Vec", v1),
      append_objects(HostImpl(left), v1, v2, "Vec", "VecAppend"))

VecSlice ==
  \E left \in Left, v \in Handles, start \in Indices, end \in Indices :
    HostCall("vec_slice", ObjectVal("Vec", v),
      copy_on_write("Vec",
        Then(visit_obj(HostImpl(left), v, "Vec"), LAMBDA o :
          LET h == o.h
              hv == o.val.val
          IN IF start > end \/ end > Len(hv) THEN Err(h, "VecIndexOutOfBound")
             ELSE clone_then(h, "VecSlice", Len(hv), SubSeq(hv, start + 1, end)))))

\* vec_len: visit_obj, then usize_to_rawval_u32 of the length.
VecLen ==
  \E left \in Left, v \in Handles :
    HostCall("vec_len", ObjectVal("Vec", v),
      Then(visit_obj(HostImpl(left), v, "Vec"), LAMBDA o :
        Ok(o.h, U32Val(Len(o.val.val)))))

MapPut ==
  \E left \in Left, m \in Handles, k \in Elems, v \in Elems :
    HostCall("map_put", ObjectVal("Map", m),
      copy_on_write("Map",
        Then(visit_obj(HostImpl(left), m, "Map"), LAMBDA o :
          LET h == o.h
              hm == o.val.val
          IN clone_then(h, "MapInsert", Len(hm), MapInsert(hm, k, v)))))

MapDel ==
  \E left \in Left, m \in Handles, k \in Elems :
    HostCall("map_del", ObjectVal("Map", m),
      copy_on_write("Map",
        Then(visit_obj(HostImpl(left), m, "Map"), LAMBDA o :
          LET h == o.h
              hm == o.val.val
          IN clone_then(h, "MapRemove", Len(hm), MapRemove(hm, k)))))

\* create_contract_from_contract(v, salt); ret.arg keeps v, with salt as its key.
CreateContractFromContract ==
  \E left \in Left, v \in Handles, salt \in Handles :
    HostCall("create_contract_from_contract",
             [tag |-> "Object", status |-> "", type |-> "Bin", handle |-> v, key |-> salt],
             create_contract_from_contract(HostImpl(left), v, salt))

\* obj_cmp(a, b); ret.arg keeps a, with b as its key.
ObjCmp ==
  \E left \in Left, a \in Handles, b \in Handles :
    HostCall("obj_cmp", [tag |-> "Object", status |-> "", type |-> "", handle |-> a, key |-> b],
             obj_cmp(HostImpl(left), a, b))

\* obj_cmp on any two handles a guest may hold: handles of the table, handles
\* issued inside a frame that was rolled back, and handles never issued.
ObjCmpAny ==
  \E left \in Left, a \in 0..MaxObjects, b \in 0..MaxObjects :
    HostCall("obj_cmp", [tag |-> "Object", status |-> "", type |-> "", handle |-> a, key |-> b],
             obj_cmp(HostImpl(left), a, b))

\* The arguments of a map function that takes a key: the map and the key.
MapArgs(m, k) == [tag |-> "Object", status |-> "", type |-> "Map", handle |-> m, key |-> k]

MapPrevKey ==
  \E left \in Left, m \in Handles, k \in QueryKeys :
    HostCall("map_prev_key", MapArgs(m, k), map_prev_key(HostImpl(left), m, k))

MapNextKey ==
  \E left \in Left, m \in Handles, k \in QueryKeys :
    HostCall("map_next_key", MapArgs(m, k), map_next_key(HostImpl(left), m, k))

MapKeys ==
  \E left \in Left, m \in Handles :
    HostCall("map_keys", ObjectVal("Map", m), map_keys(HostImpl(left), m))

MapValues ==
  \E left \in Left, m \in Handles :
    HostCall("map_values", ObjectVal("Map", m), map_values(HostImpl(left), m))

\* The arguments of an event function: the handle of the topics and the data.
EventArgs(topics, data) == [tag |-> "Event", status |-> "", type |-> data, handle |-> topics]

ContractEvent ==
  \E left \in Left, topics \in Handles, data \in LogVals :
    HostCall("contract_event", EventArgs(topics, data),
             contract_event(HostImpl(left), topics, data))

SystemEvent ==
  \E left \in Left, topics \in Handles, data \in LogVals :
    HostCall("system_event", EventArgs(topics, data),
             system_event(HostImpl(left), topics, data))

\* The arguments of account_get_signer_weight: the handles of the account and
\* of the signer.
AccountArgs(a, s) == [tag |-> "Account", status |-> "", type |-> a, handle |-> s]

AccountGetSignerWeight ==
  \E left \in Left, a \in Handles, s \in Handles :
    HostCall("account_get_signer_weight", AccountArgs(a, s),
             account_get_signer_weight(HostImpl(left), a, s))

\* The arguments of a bigint function: the handles of its two operands.
BigIntArgs(x, y) == [tag |-> "BigInt", status |-> "", type |-> x, handle |-> y]

BigIntDiv ==
  \E left \in Left, x \in Handles, y \in Handles :
    HostCall("bigint_div", BigIntArgs(x, y), bigint_div(HostImpl(left), x, y))

BigIntRem ==
  \E left \in Left, x \in Handles, y \in Handles :
    HostCall("bigint_rem", BigIntArgs(x, y), bigint_rem(HostImpl(left), x, y))

MapMinKey ==
  \E left \in Left, m \in Handles :
    HostCall("map_min_key", ObjectVal("Map", m), map_min_key(HostImpl(left), m))

MapMaxKey ==
  \E left \in Left, m \in Handles :
    HostCall("map_max_key", ObjectVal("Map", m), map_max_key(HostImpl(left), m))

\* The byte slices a native contract passes, and the positions and lengths
\* given to the copies.
Slices == {<<2, 1>>}
Positions == {0, 3}
LmPositions == {1}
Lengths == {1, 4}

\* The arguments of a copy into the bytes object b at b_pos; mem holds the
\* source bytes.
CopyArgs(b, b_pos, mem) ==
  [tag |-> "Copy", status |-> "", type |-> "", handle |-> b, key |-> b_pos, mem |-> mem]

BinaryCopyFromSlice ==
  \E left \in Left, b \in Handles, b_pos \in Positions, mem \in Slices :
    HostCall("binary_copy_from_slice", CopyArgs(b, b_pos, mem),
             binary_copy_from_slice(HostImpl(left), b, b_pos, mem))

BinaryCopyFromLinearMemory ==
  \E left \in Left, b \in Handles, b_pos \in Positions, lm_pos \in LmPositions, len \in Lengths :
    HostCall("binary_copy_from_linear_memory",
             CopyArgs(b, b_pos, IF lm_pos + len > Len(LinearMemory) THEN <<>>
                                ELSE SubSeq(LinearMemory, lm_pos + 1, lm_pos + len)),
             binary_copy_from_linear_memory(HostImpl(left), b, b_pos, lm_pos, len))

\* The identifiers and the amounts given to the token, and the contract id of
\* the token.
Ids == {"a", "b"}
Amounts == 0..1
TokenId == "c2"
BalanceKey(id) == <<TokenId, DataKey_Balance(id)>>
StateKey(id) == <<TokenId, DataKey_State(id)>>
TokenKeys == {BalanceKey(id) : id \in Ids} \cup {StateKey(id) : id \in Ids}

\* The balance the storage holds for id; no entry counts as 0.
StoredBalance(st, id) ==
  IF st[BalanceKey(id)] \in {Absent, Deleted} THEN 0 ELSE st[BalanceKey(id)][2]

TokenArgs(id, n) == [tag |-> "Token", status |-> "", type |-> id, handle |-> n]

ReceiveBalance ==
  \E left \in Left, id \in Ids, amount \in Amounts :
    /\ StoredBalance(storage, id) + amount <= MaxBalance
    /\ HostCall("receive_balance", TokenArgs(id, amount),
                receive_balance(HostImpl(left), id, amount))

SpendBalance ==
  \E left \in Left, id \in Ids, amount \in Amounts :
    HostCall("spend_balance", TokenArgs(id, amount),
             spend_balance(HostImpl(left), id, amount))

WriteState ==
  \E left \in Left, id \in Ids, is_frozen \in BOOLEAN :
    HostCall("write_state", TokenArgs(id, from_bool(is_frozen)),
             write_state(HostImpl(left), id, is_frozen))

BinaryPut ==
  \E left \in Left, b \in Handles, i \in Indices, u \in Elems :
    HostCall("binary_put", ObjectVal("Bin", b),
      copy_on_write("Bin",
        Then(visit_obj(HostImpl(left), b, "Bin"), LAMBDA o :
          LET h == o.h
              hv == o.val.val
          IN Then(metered(h, "MeteredClone", 1, hv), LAMBDA c :
               IF i >= Len(hv) THEN Err(c.h, "VecIndexOutOfBound")
               ELSE Ok(c.h, [hv EXCEPT ![i + 1] = u])))))

BinaryDel ==
  \E left \in Left, b \in Handles, i \in Indices :
    HostCall("binary_del", ObjectVal("Bin", b),
      copy_on_write("Bin",
        Then(visit_obj(HostImpl(left), b, "Bin"), LAMBDA o :
          LET h == o.h
              hv == o.val.val
          IN IF i >= Len(hv) THEN Err(h, "VecIndexOutOfBound")
             ELSE clone_then(h, "BytesDel", Len(hv), SeqRemove(hv, i)))))

BinaryPush ==
  \E left \in Left, b \in Handles, u \in Elems :
    HostCall("binary_push", ObjectVal("Bin", b),
      copy_on_write("Bin",
        Then(visit_obj(HostImpl(left), b, "Bin"), LAMBDA o :
          LET h == o.h
              hv == o.val.val
          IN clone_then(h, "BytesPush", Len(hv), Append(hv, u)))))

BinaryPop ==
  \E left \in Left, b \in Handles :
    HostCall("binary_pop", ObjectVal("Bin", b),
      copy_on_write("Bin",
        Then(visit_obj(HostImpl(left), b, "Bin"), LAMBDA o :
          LET h == o.h
              hv == o.val.val
          IN Then(clone_then(h, "BytesPop", Len(hv), Pop(hv)), LAMBDA c :
               IF hv = <<>> THEN Err(c.h, "VecIndexOutOfBound") ELSE c))))

BinaryInsert ==
  \E left \in Left, b \in Handles, i \in Indices, u \in Elems :
    HostCall("binary_insert", ObjectVal("Bin", b),
      copy_on_write("Bin",
        Then(visit_obj(HostImpl(left), b, "Bin"), LAMBDA o :
          LET h == o.h
              hv == o.val.val
          IN IF i > Len(hv) THEN Err(h, "VecIndexOutOfBound")
             ELSE clone_then(h, "BytesInsert", Len(hv), SeqInsert(hv, i, u)))))

BinaryAppend ==
  \E left \in Left, b1 \in Handles, b2 \in Handles :
    HostCall("binary_append", ObjectVal("Bin", b1),
      append_objects(HostImpl(left), b1, b2, "Bin", "BytesAppend"))

BinarySlice ==
  \E left \in Left, b \in Handles, start \in Indices, end \in Indices :
    HostCall("binary_slice", ObjectVal("Bin", b),
      copy_on_write("Bin",
        Then(visit_obj(HostImpl(left), b, "Bin"), LAMBDA o :
          LET h == o.h
              hv == o.val.val
          IN IF start > end \/ end > Len(hv) THEN Err(h, "VecIndexOutOfBound")
             ELSE metered(h, "BytesSlice", Len(hv), SubSeq(hv, start + 1, end)))))

\* What the embedder does with its references to the host, outside the host
\* functions: rc is the reference count it leaves.
Embedder(op, res, val, rc) ==
  /\ Running
  /\ refs' = rc
  /\ ret' = Ret(op, NoArg, [res |-> res, val |-> val])
  /\ UNCHANGED <<objects, storage, context, events, budget, stack, issued, panicked,
                 ledger, elided, footprint>>

\* Host::set_ledger_info called by the embedder with LedgerInfos[i].
SetLedgerInfo ==
  \E i \in DOMAIN LedgerInfos :
    /\ Running
    /\ ledger' = set_ledger_info(ledger, LedgerInfos[i])
    /\ ret' = Ret("set_ledger_info", U32Val(i), [res |-> "Ok", val |-> VoidVal])
    /\ UNCHANGED <<objects, storage, context, events, budget, stack, issued, panicked,
                   refs, elided, footprint>>

GetLedgerVersion ==
  \E left \in Left :
    HostCall("get_ledger_version", NoArg,
      Then(with_ledger_info(HostImpl(left), ledger), LAMBDA l :
        Ok(l.h, U32Val(l.val.protocol_version))))

GetLedgerSequence ==
  \E left \in Left :
    HostCall("get_ledger_sequence", NoArg,
      Then(with_ledger_info(HostImpl(left), ledger), LAMBDA l :
        Ok(l.h, U32Val(l.val.sequence_number))))

GetLedgerTimestamp ==
  \E left \in Left :
    HostCall("get_ledger_timestamp", NoArg,
      Then(with_ledger_info(HostImpl(left), ledger), LAMBDA l :
        add_host_object(l.h, U64Obj(l.val.timestamp))))

GetLedgerNetworkId ==
  \E left \in Left :
    HostCall("get_ledger_network_id", NoArg,
      Then(with_ledger_info(HostImpl(left), ledger), LAMBDA l :
        add_host_object(l.h, BinObj(l.val.network_id))))

\* Host::clone, the derived Clone of the Rc: one more strong reference.
CloneHost ==
  /\ refs.strong < MaxRefs
  /\ Embedder("clone", "Ok", VoidVal, [refs EXCEPT !.strong = @ + 1])

\* A clone of the host is dropped.
DropHost ==
  /\ refs.strong > 1
  /\ Embedder("drop", "Ok", VoidVal, [refs EXCEPT !.strong = @ - 1])

\* Host::get_weak: one more weak reference, kept by a HostVal.
GetWeak ==
  /\ refs.weak < MaxRefs
  /\ Embedder("get_weak", "Ok", VoidVal, [refs EXCEPT !.weak = @ + 1])

\* Host::try_finish on one of the references.
TryFinish ==
  LET r == try_finish([objects |-> objects, storage |-> storage, context |-> context,
                       events |-> events, budget |-> budget], refs)
  IN Embedder("try_finish", r.res, r.val, r.refs)

\* One charge on the budget of the host, of `input` units of one cost type.
Charge ==
  \E ty \in CostTypes, input \in Inputs :
    LET r == charge_budget([objects |-> objects, storage |-> storage,
                            context |-> context, events |-> events,
                            budget |-> budget], ty, input)
    IN /\ Running
       /\ budget.used < budget.limit + MaxOver
       /\ budget' = r.h.budget
       /\ ret' = Ret("charge_budget", U32Val(input), r)
       /\ UNCHANGED <<objects, storage, context, events, stack, issued, panicked,
                      ledger, refs, elided, footprint>>

\* The host with the budget as it stands (no draw of the units left).
HostNow ==
  [objects |-> objects, storage |-> storage, context |-> context, events |-> events,
   budget |-> budget, objects_refs |-> 0, objects_elided |-> elided,
   footprint |-> footprint]

\* No with_frame of the chain of nested calls has failed yet.
ChainAlive == ~(ret.op = "with_frame" /\ ret.res = "Err")

\* The body of the innermost frame (or the embedder, when there is none) calls
\* with_frame once more, as a contract that calls a contract does; the budget
\* is the one the chain runs on, and nothing else bounds the depth.
NestedWithFrame ==
  \E frame \in Frames :
    LET w == with_frame_enter(HostNow, frame)
    IN /\ Running
       /\ ChainAlive
       /\ budget' = w.h.budget
       /\ context' = w.h.context
       /\ IF w.res = "Ok"
            THEN /\ stack' = Append(stack, Activation("with_frame", w.val, TRUE))
                 /\ ret' = Ret("push_frame", NoArg, Ok(w.h, VoidVal))
            ELSE /\ ret' = RetFrame("with_frame", w, w, NoBody, NotEntered("with_frame"), FALSE)
                 /\ UNCHANGED stack
       /\ UNCHANGED <<objects, storage, events, issued, panicked, ledger, refs, elided, footprint>>

\* The body of the innermost frame makes a charge of its own.
BodyCharge == ChainAlive /\ Charge

\* The host after its set-up: the test contract "c1" is registered, which takes
\* the object holding its id, and an empty argument vector has been made.
Init ==
  /\ objects = <<BinObj("c1"), VecObj(<<>>)>>
  /\ storage = [key \in Keys |-> Absent]
  /\ context = <<>>
  /\ events = <<>>
  /\ budget = [used |-> 0, limit |-> 0]
  /\ stack = <<>>
  /\ ret = [op |-> "new", arg |-> NoArg, res |-> "Ok", val |-> VoidVal,
            wf |-> NoWf, body |-> NoBody, act |-> NoAct, rolled |-> FALSE]
  /\ issued = <<BinObj("c1"), VecObj(<<>>)>>
  /\ panicked = FALSE
  /\ ledger = <<>>
  /\ refs = [strong |-> 1, weak |-> 0]
  /\ elided = <<0, 0>>
  /\ footprint = NoFootprint

Next ==
  \/ ObjFromU64
  \/ GetCurrentContract
  \/ VecNew
  \/ LogValue
  \/ PutContractData
  \/ DelContractData
  \/ WithFrame
  \/ Call
  \/ TryCall
  \/ BodyOk
  \/ BodyFail
  \/ BodyPropagate
  \/ Charge

Spec == Init /\ [][Next]_vars

\* Object tables of a host on which a guest has built two containers.
ContainerTables ==
  { <<VecObj(<<1, 2>>), MapObj(<< <<1, 2>>, <<2, 1>>, <<3, 1>> >>)>>,
    <<MapObj(<< <<2, 2>> >>), BinObj(<<1, 2>>)>>,
    <<BinObj(<<>>), VecObj(<<>>)>> }

InitContainers ==
  /\ objects \in ContainerTables
  /\ storage = [key \in Keys |-> Absent]
  /\ context = <<>>
  /\ events = <<>>
  /\ budget = [used |-> 0, limit |-> 0]
  /\ stack = <<>>
  /\ ret = [op |-> "new", arg |-> NoArg, res |-> "Ok", val |-> VoidVal,
            wf |-> NoWf, body |-> NoBody, act |-> NoAct, rolled |-> FALSE]
  /\ issued = objects
  /\ panicked = FALSE
  /\ ledger = <<>>
  /\ refs = [strong |-> 1, weak |-> 0]
  /\ elided = <<0, 0>>
  /\ footprint = NoFootprint

\* Guests that work on containers.
NextContainers ==
  \/ VecPush \/ VecPop \/ VecPut \/ VecDel \/ VecInsert \/ VecAppend \/ VecSlice
  \/ VecLen
  \/ MapPut \/ MapDel
  \/ BinaryPut \/ BinaryDel \/ BinaryPush \/ BinaryPop \/ BinaryInsert
  \/ BinaryAppend \/ BinarySlice

SpecContainers == InitContainers /\ [][NextContainers]_vars

\* Guests that build maps and ask for the keys next to a key.
NextMapKeys ==
  \/ MapPut
  \/ MapDel
  \/ MapPrevKey
  \/ MapNextKey

SpecMapKeys == InitContainers /\ [][NextMapKeys]_vars

\* Guests that make objects, equal ones among them, and compare them.
NextCmp ==
  \/ ObjCmp
  \/ ObjFromU64
  \/ VecPut
  \/ MapPut

SpecCmp == InitContainers /\ [][NextCmp]_vars

\* A host given a storage that may hold contract code already, and a table
\* with the bytes a guest passes as code and as salt.
InitCreate ==
  /\ objects \in {<<BinObj(<<1>>)>>, <<BinObj(<<2>>)>>}
  /\ storage \in {st \in [Keys -> {Absent} \cup {Some(code) : code \in Codes}] :
                    \A key \in Keys : key \notin {"h1", "h2"} \X {"ContractCodeWasm"}
                                         => st[key] = Absent}
  /\ context = <<>>
  /\ events = <<>>
  /\ budget = [used |-> 0, limit |-> 0]
  /\ stack = <<>>
  /\ ret = [op |-> "new", arg |-> NoArg, res |-> "Ok", val |-> VoidVal,
            wf |-> NoWf, body |-> NoBody, act |-> NoAct, rolled |-> FALSE]
  /\ issued = objects
  /\ panicked = FALSE
  /\ ledger = <<>>
  /\ refs = [strong |-> 1, weak |-> 0]
  /\ elided = <<0, 0>>
  /\ footprint = NoFootprint

\* Contracts that create contracts.
NextCreate ==
  \/ CreateContractFromContract
  \/ WithFrame
  \/ BodyOk

SpecCreate == InitCreate /\ [][NextCreate]_vars

\* Guests that work on vectors.
NextVec ==
  \/ VecPush
  \/ VecPop
  \/ VecPut
  \/ VecLen

SpecVec == InitContainers /\ [][NextVec]_vars

\* A host given a budget limit, on which charges are made one by one.
InitBudget ==
  /\ objects = <<>>
  /\ storage = [key \in Keys |-> Absent]
  /\ context = <<>>
  /\ events = <<>>
  /\ budget \in [used : {0}, limit : 0..MaxLimit]
  /\ stack = <<>>
  /\ ret = [op |-> "new", arg |-> NoArg, res |-> "Ok", val |-> VoidVal,
            wf |-> NoWf, body |-> NoBody, act |-> NoAct, rolled |-> FALSE]
  /\ issued = <<>>
  /\ panicked = FALSE
  /\ ledger = <<>>
  /\ refs = [strong |-> 1, weak |-> 0]
  /\ elided = <<0, 0>>
  /\ footprint = NoFootprint

NextBudget == Charge

SpecBudget == InitBudget /\ [][NextBudget]_vars

\* Guests that use the storage functions and calls.
NextStorage ==
  \/ PutContractData
  \/ DelContractData
  \/ WithFrame
  \/ Call
  \/ TryCall
  \/ BodyOk
  \/ BodyFail
  \/ BodyPropagate

SpecStorage == Init /\ [][NextStorage]_vars

\* Guests that write and read contract data inside frames.
NextData ==
  \/ PutContractData
  \/ DelContractData
  \/ HasContractData
  \/ GetContractData
  \/ WithFrame
  \/ BodyOk
  \/ BodyFail

SpecData == Init /\ [][NextData]_vars

\* An embedder that sets the ledger info and a guest that reads it.
NextLedger ==
  \/ SetLedgerInfo
  \/ GetLedgerVersion
  \/ GetLedgerSequence
  \/ GetLedgerTimestamp
  \/ GetLedgerNetworkId

SpecLedger == Init /\ [][NextLedger]_vars

\* An embedder that shares the host, lets a guest log and write inside frames,
\* and finishes at any point.
NextFinish ==
  \/ CloneHost
  \/ DropHost
  \/ GetWeak
  \/ TryFinish
  \/ LogValue
  \/ WithFrame
  \/ PutContractData

SpecFinish == Init /\ [][NextFinish]_vars

\* Guests that make objects inside frames.
NextAdds ==
  \/ GetCurrentContract
  \/ VecNew
  \/ WithFrame
  \/ BodyOk
  \/ BodyFail
  \/ BodyPropagate

SpecAdds == Init /\ [][NextAdds]_vars

\* Guests that make objects inside nested try_calls.
NextNested ==
  \/ VecNew
  \/ TryCall
  \/ BodyOk
  \/ BodyFail

SpecNested == Init /\ [][NextNested]_vars

\* Guests that log and write to storage inside frames.
NextFrames ==
  \/ LogValue
  \/ PutContractData
  \/ DelContractData
  \/ WithFrame
  \/ BodyOk
  \/ BodyFail
  \/ BodyPropagate

SpecFrames == Init /\ [][NextFrames]_vars

\* Frames of every kind and the two lookups of a contract id.
NextInvoker ==
  \/ WithFrameOf
  \/ BodyOk
  \/ GetCurrentContract
  \/ GetInvokingContract

SpecInvoker == Init /\ [][NextInvoker]_vars

\* invoke_function called by the embedder of a host with an empty object
\* table, and what the contract function called does.
InitInvoke ==
  /\ objects = <<>>
  /\ storage = [key \in Keys |-> Absent]
  /\ context = <<>>
  /\ events = <<>>
  /\ budget = [used |-> 0, limit |-> 0]
  /\ stack = <<>>
  /\ ret = [op |-> "new", arg |-> NoArg, res |-> "Ok", val |-> VoidVal,
            wf |-> NoWf, body |-> NoBody, act |-> NoAct, rolled |-> FALSE]
  /\ issued = <<>>
  /\ panicked = FALSE
  /\ ledger = <<>>
  /\ refs = [strong |-> 1, weak |-> 0]
  /\ elided = <<0, 0>>
  /\ footprint = NoFootprint

NextInvoke ==
  \/ InvokeFunction
  \/ InvokeBodyOk
  \/ InvokeBodyFail
  \/ PutContractData

SpecInvoke == InitInvoke /\ [][NextInvoke]_vars

\* Maps built by map_put and visited by map_keys and map_values.
NextMapVisit ==
  \/ MapPut
  \/ MapDel
  \/ MapKeys
  \/ MapValues

SpecMapVisit == InitContainers /\ [][NextMapVisit]_vars

\* A byte string of n bytes.
BytesOfLen(n) == [i \in 1..n |-> 0]

\* Object tables of a host on which a guest has built topics vectors.
TopicTables ==
  { <<BinObj(BytesOfLen(TOPIC_BYTES_LENGTH_LIMIT)),
      VecObj(<<U32Val(1), ObjectVal("Bin", 0)>>),
      VecObj(<<U32Val(1), U32Val(2), U32Val(1), U32Val(2), U32Val(1)>>)>>,
    <<BinObj(BytesOfLen(TOPIC_BYTES_LENGTH_LIMIT + 1)),
      VecObj(<<ObjectVal("Bin", 0)>>),
      VecObj(<<U32Val(1), U32Val(2), U32Val(1), U32Val(2)>>)>>,
    <<VecObj(<<>>),
      VecObj(<<ObjectVal("Vec", 0), U32Val(1)>>),
      U64Obj(7)>>,
    <<MapObj(<< <<1, 2>> >>),
      VecObj(<<U32Val(2), ObjectVal("Map", 0)>>),
      BinObj(<<1, 2>>)>>,
    <<U64Obj(7),
      VecObj(<<ObjectVal("U64", 0), U32Val(2)>>),
      VecObj(<<ObjectVal("Bin", 3)>>)>> }

InitEvents ==
  /\ objects \in TopicTables
  /\ storage = [key \in Keys |-> Absent]
  /\ context = <<>>
  /\ events = <<>>
  /\ budget = [used |-> 0, limit |-> 0]
  /\ stack = <<>>
  /\ ret = [op |-> "new", arg |-> NoArg, res |-> "Ok", val |-> VoidVal,
            wf |-> NoWf, body |-> NoBody, act |-> NoAct, rolled |-> FALSE]
  /\ issued = objects
  /\ panicked = FALSE
  /\ ledger = <<>>
  /\ refs = [strong |-> 1, weak |-> 0]
  /\ elided = <<0, 0>>
  /\ footprint = NoFootprint

\* Guests that emit contract events.
NextEvents ==
  \/ ContractEvent
  \/ SystemEvent

SpecEvents == InitEvents /\ [][NextEvents]_vars

\* Object tables of a host on which a guest holds account ids and signer keys.
KeyTables ==
  { <<BinObj(<<1>>), BinObj(<<2>>), BinObj(<<3>>)>>,
    <<BinObj(<<2>>), BinObj(<<4>>), U64Obj(7)>>,
    <<BinObj(<<1>>), BinObj(<<3>>)>>,
    <<BinObj(<<1>>)>> }

InitAccounts ==
  /\ objects \in KeyTables
  /\ storage = [key \in Keys |-> Absent]
  /\ context = <<>>
  /\ events = <<>>
  /\ budget = [used |-> 0, limit |-> 0]
  /\ stack = <<>>
  /\ ret = [op |-> "new", arg |-> NoArg, res |-> "Ok", val |-> VoidVal,
            wf |-> NoWf, body |-> NoBody, act |-> NoAct, rolled |-> FALSE]
  /\ issued = objects
  /\ panicked = FALSE
  /\ ledger = <<>>
  /\ refs = [strong |-> 1, weak |-> 0]
  /\ elided = <<0, 0>>
  /\ footprint = NoFootprint

\* Guests that ask for the weight of signers and log.
NextAccounts ==
  \/ AccountGetSignerWeight
  \/ LogValue

SpecAccounts == InitAccounts /\ [][NextAccounts]_vars

\* Object tables of a host on which a guest holds big integers.
BigIntTables ==
  { <<BigIntObj(7), BigIntObj(0)>>,
    <<BigIntObj(-7), BigIntObj(2)>>,
    <<BigIntObj(-2), BigIntObj(5)>>,
    <<BigIntObj(0), U64Obj(7)>> }

InitBigInt ==
  /\ objects \in BigIntTables
  /\ storage = [key \in Keys |-> Absent]
  /\ context = <<>>
  /\ events = <<>>
  /\ budget = [used |-> 0, limit |-> 0]
  /\ stack = <<>>
  /\ ret = [op |-> "new", arg |-> NoArg, res |-> "Ok", val |-> VoidVal,
            wf |-> NoWf, body |-> NoBody, act |-> NoAct, rolled |-> FALSE]
  /\ issued = objects
  /\ panicked = FALSE
  /\ ledger = <<>>
  /\ refs = [strong |-> 1, weak |-> 0]
  /\ elided = <<0, 0>>
  /\ footprint = NoFootprint

\* Guests that divide big integers.
NextBigInt ==
  \/ BigIntDiv
  \/ BigIntRem

SpecBigInt == InitBigInt /\ [][NextBigInt]_vars

\* Guests that write to storage and add objects inside nested frames.
NextCommit ==
  \/ PutContractData
  \/ VecNew
  \/ WithFrame
  \/ BodyOk
  \/ BodyFail

SpecCommit == Init /\ [][NextCommit]_vars

\* A chain of nested with_frame calls on a budget of a given limit; the call
\* of with_frame is what the chain keeps doing, so it is taken fairly.
NextRecursion ==
  \/ NestedWithFrame
  \/ BodyCharge

SpecRecursion == InitBudget /\ [][NextRecursion]_vars /\ WF_vars(NestedWithFrame)

\* A host whose object table has grown to the neighbourhood of u32::MAX
\* objects, or is empty.
InitHandles ==
  /\ objects = <<>>
  /\ storage = [key \in Keys |-> Absent]
  /\ context = <<>>
  /\ events = <<>>
  /\ budget = [used |-> 0, limit |-> 0]
  /\ stack = <<>>
  /\ ret = [op |-> "new", arg |-> NoArg, res |-> "Ok", val |-> VoidVal,
            wf |-> NoWf, body |-> NoBody, act |-> NoAct, rolled |-> FALSE]
  /\ issued = <<>>
  /\ panicked = FALSE
  /\ ledger = <<>>
  /\ refs = [strong |-> 1, weak |-> 0]
  /\ elided \in {<<0, 0>>, <<65535, 65533>>, <<65535, 65534>>, <<65535, 65535>>,
                 <<65536, 0>>, <<65536, 1>>}
  /\ footprint = NoFootprint

\* Guests that add objects.
NextHandles ==
  \/ ObjFromU64
  \/ VecNew

SpecHandles == InitHandles /\ [][NextHandles]_vars

\* Guests that build maps and ask for their least and greatest keys.
NextMinMax ==
  \/ MapPut
  \/ MapDel
  \/ MapMinKey
  \/ MapMaxKey

SpecMinMax == InitContainers /\ [][NextMinMax]_vars

\* Guests that compare objects by handle, also by handles that a rollback has
\* emptied.
NextStale ==
  \/ ObjCmpAny
  \/ VecNew
  \/ WithFrame
  \/ BodyFail

SpecStale == InitContainers /\ [][NextStale]_vars

\* Native contracts and guests that copy bytes into bytes objects.
NextCopy ==
  \/ BinaryCopyFromSlice
  \/ BinaryCopyFromLinearMemory

SpecCopy == InitContainers /\ [][NextCopy]_vars

\* The token contract at work in its frame. Either the ledger holds no entry
\* of the token and the deployment passes no footprint; or the ledger holds a
\* balance and the frozen state of a, and the footprint declares the balances
\* for writing and the state of b for reading.
InitToken ==
  /\ objects = <<>>
  /\ \/ /\ storage = [key \in TokenKeys |-> Absent]
        /\ footprint = NoFootprint
     \/ /\ storage = [key \in TokenKeys |->
                        CASE key = BalanceKey("a") -> Some(1)
                          [] key = StateKey("a") -> Some(from_bool(TRUE))
                          [] OTHER -> Absent]
        /\ footprint = [passed |-> TRUE, readonly |-> {StateKey("b")},
                        readwrite |-> {BalanceKey(id) : id \in Ids}]
  /\ context = <<TokenFrame(TokenId)>>
  /\ events = <<>>
  /\ budget = [used |-> 0, limit |-> 0]
  /\ stack = <<[kind |-> "with_frame", start_depth |-> 0,
                rp |-> [objects |-> 0, storage |-> storage], pushed |-> TRUE,
                entry_events |-> 0, entry_issued |-> 0]>>
  /\ ret = [op |-> "new", arg |-> NoArg, res |-> "Ok", val |-> VoidVal,
            wf |-> NoWf, body |-> NoBody, act |-> NoAct, rolled |-> FALSE]
  /\ issued = <<>>
  /\ panicked = FALSE
  /\ ledger = <<>>
  /\ refs = [strong |-> 1, weak |-> 0]
  /\ elided = <<0, 0>>

NextToken ==
  \/ ReceiveBalance
  \/ SpendBalance
  \/ WriteState

SpecToken == InitToken /\ [][NextToken]_vars

TypeOK ==
  /\ Len(objects) <= MaxObjects
  /\ Len(events) <= MaxEvents
  /\ Len(stack) <= MaxDepth
  /\ budget \in {[used |-> 0, limit |-> 0], [used |-> 1, limit |-> 0]}

\* ------------------------------------------------------------------ claims
\* The operation that completed last went through with_frame.
WfReturned == ret.wf # NoWf

\* The closure of that with_frame was run.
WfRan == WfReturned /\ ret.act[1].pushed

\* C1: after with_frame returns, whatever the outcome, the context stack has
\* the depth it had when with_frame was entered.
C1_DepthRestored == WfReturned => Len(context) = ret.act[1].start_depth

\* C2: when with_frame returns an error, the storage and the length of the
\* object table are those of the snapshot taken when the frame was pushed.
C2_ErrorRestoresSnapshot ==
  (WfRan /\ ret.wf[1].res = "Err")
    => /\ storage = ret.act[1].rp.storage
       /\ Len(objects) = ret.act[1].rp.objects

\* C3: when with_frame returns Ok, the storage is the one its closure left: the
\* step that ends the frame changes no entry, so a key put inside the frame
\* still holds the value written.
C3_SuccessKeepsWrites ==
  [][(ret'.wf # NoWf /\ ret'.wf[1].res = "Ok") => storage' = storage]_vars

\* C3 witness: with_frame has returned Ok and a key holds a value that it did
\* not hold when the frame was pushed.
C3_Witness ==
  /\ WfRan
  /\ ret.wf[1].res = "Ok"
  /\ \E key \in Keys, v \in Vals :
       storage[key] = Some(v) /\ ret.act[1].rp.storage[key] # Some(v)

\* C4: when the callee of try_call fails after writing to storage, try_call
\* returns Ok with the status of the callee, a debug event carrying that
\* status is in the event log, the storage is the one of the caller
\* from before the call, and the frame of the caller is on top of the context
\* stack again.
C4_TryCallContainsFailure ==
  [][(/\ ret'.op = "try_call"
      /\ ret'.body # NoBody
      /\ ret'.body[1].res = "Err"
      /\ storage # ret'.act[1].rp.storage)
       => /\ ret'.res = "Ok"
          /\ ret'.val = ret'.body[1].val
          /\ \E i \in 1..Len(events') :
               events'[i] = [type |-> "Debug",
                             msg |-> "try_call got error from callee contract",
                             args |-> <<ret'.body[1].val>>]
          /\ storage' = ret'.act[1].rp.storage
          /\ Len(context') = ret'.act[1].start_depth]_vars

\* C5: try_call returns Ok whatever the state of the budget, and call returns
\* an error exactly when its callee failed.
C5_TryCallNeverPropagates ==
  /\ ret.op = "try_call" => ret.res = "Ok"
  /\ (ret.op = "call" /\ ret.body # NoBody)
       => (ret.res = "Err" <=> ret.body[1].res = "Err")

\* The operations of the model that end in add_host_object.
AddOps == {"obj_from_u64", "get_current_contract", "vec_new"}

\* The step is a successful add_host_object.
AddedObject == ret'.op \in AddOps /\ ret'.res = "Ok"

\* The step is a with_frame whose pop_frame applied the rollback point.
RolledBack == ret'.wf # NoWf /\ ret'.rolled

\* C6: no handle is issued twice, frames that fail and roll back included: a
\* successful add_host_object returns a handle that no earlier add returned.
C6_HandleNeverReissued ==
  [][AddedObject => ret'.val.handle >= Len(issued)]_vars

\* C6 amended: a successful add_host_object returns the length of the table
\* at the time of the call, which is the handle of no object in the table, and
\* leaves the objects of the table in place; a handle is returned again only
\* for a slot that a rollback has emptied.
C6_HandleFreshInTable ==
  [][AddedObject
       => /\ ret'.val.handle = Len(objects)
          /\ Len(objects') = Len(objects) + 1
          /\ \A i \in 1..Len(objects) : objects'[i] = objects[i]]_vars

\* C6 witness: an add has returned a handle that had been issued before for
\* another object, removed since by a rollback.
C6_Witness ==
  /\ ret.op \in AddOps
  /\ ret.res = "Ok"
  /\ Len(objects) = ret.val.handle + 1
  /\ issued[ret.val.handle + 1] # objects[ret.val.handle + 1]

\* C7: an object once added stays in the table with the same content: every
\* handle ever issued still resolves to the object that was added under it.
C7_ObjectsLiveForever ==
  \A i \in 1..Len(issued) : i <= Len(objects) /\ objects[i] = issued[i]

\* C7 amended: an object stays in the table with the same content until a
\* frame that contains its addition is rolled back: no step changes an object
\* of the table, and only the rollback of a failed frame removes objects, and
\* then only those added since the frame was pushed.
C7_ObjectsLiveUntilRollback ==
  [][/\ \A i \in 1..Min(Len(objects), Len(objects')) : objects'[i] = objects[i]
     /\ Len(objects') < Len(objects)
          => RolledBack /\ Len(objects') = ret'.act[1].rp.objects]_vars

\* C7 witness: a rollback has removed an object, so that a handle issued
\* earlier resolves to nothing.
C7_Witness ==
  /\ WfRan
  /\ ret.rolled
  /\ Len(objects) = ret.act[1].rp.objects
  /\ Len(issued) > Len(objects)
  /\ ret.act[1].entry_issued = Len(objects)

\* C8: when with_frame returns Ok, the object table is at least as long as it
\* was at entry, also when frames nested in the body failed and were rolled
\* back.
C8_OkNeverShrinksTable ==
  (WfRan /\ ret.wf[1].res = "Ok") => Len(objects) >= ret.act[1].rp.objects

\* C8 witness: with_frame has returned Ok after a frame nested in its body
\* failed and its rollback removed an object added inside the body.
C8_Witness ==
  /\ WfRan
  /\ ret.wf[1].res = "Ok"
  /\ Len(issued) > ret.act[1].entry_issued
  /\ Len(objects) = ret.act[1].rp.objects

\* C9: when a frame is rolled back, the events recorded inside the frame and
\* the storage writes made inside it are reverted together.
C9_RollbackRevertsEvents ==
  (WfRan /\ ret.rolled)
    => /\ storage = ret.act[1].rp.storage
       /\ Len(events) = ret.act[1].entry_events

\* C9 amended: when a frame is rolled back, the storage writes made inside it
\* are reverted, and the events recorded inside it remain in the event log.
C9_RollbackKeepsEvents ==
  [][RolledBack
       => /\ storage' = ret'.act[1].rp.storage
          /\ Len(events') >= Len(events)
          /\ SubSeq(events', 1, Len(events)) = events]_vars

\* C9 witness: a frame has been rolled back and an event recorded inside it is
\* in the event log.
C9_Witness ==
  /\ WfRan
  /\ ret.rolled
  /\ storage = ret.act[1].rp.storage
  /\ Len(events) > ret.act[1].entry_events

\* C10: record_debug_event appends the event before it charges: when it returns
\* BudgetExceeded, the event it was given is the last entry of the event log.
C10_EventRecordedBeforeCharge ==
  [][(ret'.op = "log_value" /\ ret'.res = "Err" /\ ret'.val = StatusVal("BudgetExceeded"))
       => events' = Append(events, [type |-> "Debug", msg |-> "log",
                                    args |-> <<ret'.arg>>])]_vars

\* C10 witness: log_value has returned BudgetExceeded and its event is the last
\* entry of the event log.
C10_Witness ==
  /\ ret.op = "log_value"
  /\ ret.res = "Err"
  /\ ret.val = StatusVal("BudgetExceeded")
  /\ events # <<>>
  /\ events[Len(events)].args = <<ret.arg>>

\* C11: every charge adds its cost to the total of the budget; the charge
\* whose total crosses the limit returns BudgetExceeded, and so does every
\* charge made after it.
C11_ExhaustionIsSticky ==
  [][ret'.op = "charge_budget"
       => /\ budget'.limit = budget.limit
          /\ budget'.used > budget.used
          /\ (budget'.used > budget.limit)
               <=> (ret'.res = "Err" /\ ret'.val = StatusVal("BudgetExceeded"))
          /\ (budget.used > budget.limit) => ret'.res = "Err"]_vars

\* C11 witness: a charge made after the one that crossed the limit has
\* returned BudgetExceeded.
C11_Witness ==
  /\ ret.op = "charge_budget"
  /\ ret.res = "Err"
  /\ ret.val = StatusVal("BudgetExceeded")
  /\ budget.used > budget.limit + 1

\* C12: a vector function that would add an object (vec_push, vec_pop,
\* vec_put) and fails with BudgetExceeded, at whichever of
\* its charges, leaves the object table as it was.
C12_BudgetFailureAddsNothing ==
  [][(ret'.res = "Err" /\ ret'.val = StatusVal("BudgetExceeded"))
       => objects' = objects]_vars

\* C12 witness: vec_push on a vector of the table has failed with
\* BudgetExceeded and the table holds the objects it started with.
C12_Witness ==
  /\ ret.op = "vec_push"
  /\ ret.res = "Err"
  /\ ret.val = StatusVal("BudgetExceeded")
  /\ ret.arg.handle + 1 \in 1..Len(objects)
  /\ objects[ret.arg.handle + 1].type = "Vec"
  /\ objects \in ContainerTables

\* The storage key of the storage function that completed last, in the frame
\* of the contract running.
DataKey == <<context[Len(context)].id, ret'.arg.type>>
DataOp(op) == ret'.op = op /\ context # <<>> /\ context' = context

\* C13: inside one frame a write is visible to the reads that follow it: a
\* put(k, v) that succeeds leaves v under k and a del(k) that succeeds leaves
\* nothing under k; get(k) returns the value under k and has(k) true when
\* there is one, and when there is none get fails with MissingValue and has
\* returns false; the reads change nothing (reads that ran out of budget
\* aside).
C13_StorageRoundTrip ==
  [][/\ (DataOp("put_contract_data") /\ ret'.res = "Ok")
          => storage' = [storage EXCEPT ![DataKey] = Some(ret'.arg.handle)]
     /\ (DataOp("del_contract_data") /\ ret'.res = "Ok")
          => /\ storage'[DataKey] \notin {Some(v) : v \in Vals}
             /\ \A key \in Keys \ {DataKey} : storage'[key] = storage[key]
     /\ (DataOp("get_contract_data") /\ ret'.val # StatusVal("BudgetExceeded"))
          => /\ storage' = storage
             /\ \A v \in Vals : storage[DataKey] = Some(v)
                    => ret'.res = "Ok" /\ ret'.val = U32Val(v)
             /\ storage[DataKey] \notin {Some(v) : v \in Vals}
                    => ret'.res = "Err" /\ ret'.val = StatusVal("MissingValue")
     /\ (DataOp("has_contract_data") /\ ret'.val # StatusVal("BudgetExceeded"))
          => /\ storage' = storage
             /\ ret'.res = "Ok"
             /\ ret'.val = BoolVal(storage[DataKey] \in {Some(v) : v \in Vals})]_vars

\* C13 witness: get has failed with MissingValue on a key that was written
\* and then deleted in the frame still running.
C13_Witness ==
  /\ ret.op = "get_contract_data"
  /\ ret.res = "Err"
  /\ ret.val = StatusVal("MissingValue")
  /\ stack # <<>>
  /\ storage[<<context[Len(context)].id, ret.arg.type>>] = Deleted

\* C14: try_finish returns the storage, the budget and the events of the host
\* exactly when the reference it is called on is the only strong reference
\* (weak references do not count); otherwise it returns the host, whose state
\* and references are as before.
C14_FinishIffUnique ==
  [][ret'.op = "try_finish"
       => /\ (ret'.res = "Ok") <=> (refs.strong = 1)
          /\ ret'.res = "Ok"
               => ret'.val = [storage |-> storage, budget |-> budget, events |-> events]
          /\ ret'.res # "Ok"
               => /\ ret'.res = "Err"
                  /\ UNCHANGED <<objects, storage, context, events, budget, ledger, refs>>]_vars

\* C14 witness: try_finish has given back a written storage and a logged event
\* while a weak reference was outstanding.
C14_Witness ==
  /\ ret.op = "try_finish"
  /\ ret.res = "Ok"
  /\ refs.weak > 0
  /\ ret.val.events # <<>>
  /\ \E key \in Keys : ret.val.storage[key] # Absent

\* C15 as stated: ledger info is settable once; after a first set_ledger_info
\* a later one does not replace the stored info.
C15_FirstSetIsKept == [][ledger # <<>> => ledger' = ledger]_vars

\* C15 amended: every set_ledger_info replaces the stored info, and the four
\* getters return the fields of the info set last: the version and sequence as
\* values, the timestamp and network id as new objects.
C15_LatestSetIsReturned ==
  [][/\ ret'.op = "set_ledger_info" => ledger' = <<LedgerInfos[ret'.arg.handle]>>
     /\ ret'.op # "set_ledger_info" => ledger' = ledger
     /\ (ret'.op = "get_ledger_version" /\ ret'.res = "Ok")
          => ledger # <<>> /\ ret'.val = U32Val(ledger[1].protocol_version)
     /\ (ret'.op = "get_ledger_sequence" /\ ret'.res = "Ok")
          => ledger # <<>> /\ ret'.val = U32Val(ledger[1].sequence_number)
     /\ (ret'.op = "get_ledger_timestamp" /\ ret'.res = "Ok")
          => /\ ledger # <<>>
             /\ ret'.val = ObjectVal("U64", Len(objects))
             /\ objects' = Append(objects, U64Obj(ledger[1].timestamp))
     /\ (ret'.op = "get_ledger_network_id" /\ ret'.res = "Ok")
          => /\ ledger # <<>>
             /\ ret'.val = ObjectVal("Bin", Len(objects))
             /\ objects' = Append(objects, BinObj(ledger[1].network_id))]_vars

\* C15 witness: the timestamp of the first info was read into an object, and
\* get_ledger_version has since returned the version of the second info.
C15_Witness ==
  /\ ret.op = "get_ledger_version"
  /\ ret.res = "Ok"
  /\ ret.val = U32Val(LedgerInfos[2].protocol_version)
  /\ Len(objects) = 3
  /\ objects[3] = U64Obj(LedgerInfos[1].timestamp)

\* The container functions that return a changed copy of a container.
MutatingOps ==
  {"map_put", "map_del", "vec_put", "vec_del", "vec_push", "vec_pop", "vec_insert",
   "vec_append", "vec_slice", "binary_put", "binary_del", "binary_push", "binary_pop",
   "binary_insert", "binary_append", "binary_slice"}

\* C16: every mutating container function is copy-on-write: when it succeeds
\* the table has exactly one object more, whose handle it returns, and every
\* object that was in the table is unchanged; when it fails the table is
\* unchanged.
C16_CopyOnWrite ==
  [][ret'.op \in MutatingOps
       => IF ret'.res = "Ok"
            THEN /\ Len(objects') = Len(objects) + 1
                 /\ SubSeq(objects', 1, Len(objects)) = objects
                 /\ ret'.val = ObjectVal(ret'.arg.type, Len(objects))
            ELSE objects' = objects]_vars

\* C16 witness: map_del has returned a new map and the two objects the table
\* started with are in place.
C16_Witness ==
  /\ ret.op = "map_del"
  /\ ret.res = "Ok"
  /\ Len(objects) = 3
  /\ SubSeq(objects, 1, 2) \in ContainerTables
  /\ objects[3].type = "Map"
  /\ objects[3] # objects[ret.arg.handle + 1]

\* The vector functions of these guests; each starts by looking up the handle
\* it is given.
LookupOps == {"vec_len", "vec_push", "vec_pop", "vec_put"}

\* C17: a lookup that is not stopped by the budget fails with UnknownReference
\* exactly when the handle is not below the length of the table, and with
\* UnexpectedType exactly when the handle is in range and the object stored
\* is not of the kind expected (here a vector); otherwise the function sees
\* the object stored: vec_len returns its length.
C17_LookupErrors ==
  [][(ret'.op \in LookupOps /\ ret'.val # StatusVal("BudgetExceeded"))
       => LET handle == ret'.arg.handle
              unknown == handle >= Len(objects)
              other == ~unknown /\ objects[handle + 1].type # "Vec"
          IN /\ (ret'.res = "Err" /\ ret'.val = StatusVal("UnknownReference")) <=> unknown
             /\ (ret'.res = "Err" /\ ret'.val = StatusVal("UnexpectedType")) <=> other
             /\ (ret'.op = "vec_len" /\ ~unknown /\ ~other)
                  => /\ ret'.res = "Ok"
                     /\ ret'.val = U32Val(Len(objects[handle + 1].val))]_vars

\* C17 witness: vec_len was given the handle of a map and has failed with
\* UnexpectedType.
C17_Witness ==
  /\ ret.op = "vec_len"
  /\ ret.res = "Err"
  /\ ret.val = StatusVal("UnexpectedType")
  /\ ret.arg.handle < Len(objects)
  /\ objects[ret.arg.handle + 1].type = "Map"

\* The keys of the map that the function completed last was given.
KeysOfMap == {e[1] : e \in {objects[ret'.arg.handle + 1].val[i] :
                              i \in 1..Len(objects[ret'.arg.handle + 1].val)}}
OnMap(op) ==
  /\ ret'.op = op
  /\ ret'.val # StatusVal("BudgetExceeded")
  /\ ret'.arg.handle < Len(objects)
  /\ objects[ret'.arg.handle + 1].type = "Map"

\* C18: for every map m and key k, in m or not, map_prev_key(m, k) returns the
\* greatest key of m below k and map_next_key(m, k) the least key of m above k;
\* when there is no such key the value returned is an error status (calls
\* that ran out of budget aside).
C18_AdjacentKeys ==
  [][/\ OnMap("map_prev_key")
          => LET lower == {x \in KeysOfMap : x < ret'.arg.key}
             IN /\ ret'.res = "Ok"
                /\ IF lower = {} THEN ret'.val.tag = "Status"
                    ELSE /\ ret'.val.tag = "U32"
                         /\ ret'.val.handle \in lower
                         /\ \A x \in lower : x <= ret'.val.handle
     /\ OnMap("map_next_key")
          => LET upper == {x \in KeysOfMap : x > ret'.arg.key}
             IN /\ ret'.res = "Ok"
                /\ IF upper = {} THEN ret'.val.tag = "Status"
                    ELSE /\ ret'.val.tag = "U32"
                         /\ ret'.val.handle \in upper
                         /\ \A x \in upper : x >= ret'.val.handle]_vars

\* C18 witness: map_prev_key was asked for a key of a map with two smaller
\* keys and has returned the greater of the two.
C18_Witness ==
  /\ ret.op = "map_prev_key"
  /\ ret.res = "Ok"
  /\ ret.arg.key = 3
  /\ ret.val = U32Val(2)
  /\ objects[ret.arg.handle + 1] = MapObj(<< <<1, 2>>, <<2, 1>>, <<3, 1>> >>)

\* What obj_cmp(a, b) returns in the state reached, given budget for it.
ObjCmpNow(a, b) == obj_cmp(HostImpl(MaxLeft), a, b).val.handle
Live == 0..(Len(objects) - 1)

\* C19: on the objects of the table obj_cmp is a total order: obj_cmp(a, a) is
\* 0, obj_cmp(a, b) is the opposite of obj_cmp(b, a) and is 0 only for equal
\* objects, obj_cmp(a, b) <= 0 and obj_cmp(b, c) <= 0 give obj_cmp(a, c) <= 0,
\* and every result is -1, 0 or 1; the call made last returned that result.
C19_ObjCmpTotalOrder ==
  ~BudgetExceeded(budget) =>
    /\ \A a \in Live : ObjCmpNow(a, a) = 0
    /\ \A a \in Live, b \in Live :
         /\ ObjCmpNow(a, b) \in {-1, 0, 1}
         /\ ObjCmpNow(a, b) = 0 - ObjCmpNow(b, a)
         /\ ObjCmpNow(a, b) = 0 => objects[a + 1] = objects[b + 1]
    /\ \A a \in Live, b \in Live, c \in Live :
         (ObjCmpNow(a, b) <= 0 /\ ObjCmpNow(b, c) <= 0) => ObjCmpNow(a, c) <= 0
    /\ (ret.op = "obj_cmp" /\ ret.res = "Ok")
         => ret.val.handle = ObjCmpNow(ret.arg.handle, ret.arg.key)

\* C19 witness: obj_cmp has returned 0 for two handles of the table that are
\* not the same handle, behind which there are equal vectors.
C19_Witness ==
  /\ ret.op = "obj_cmp"
  /\ ret.res = "Ok"
  /\ ret.val.handle = 0
  /\ ret.arg.handle \in Live
  /\ ret.arg.key \in Live
  /\ ret.arg.handle # ret.arg.key
  /\ objects[ret.arg.handle + 1].type = "Vec"
  /\ objects[ret.arg.handle + 1] = objects[ret.arg.key + 1]

\* The contract that calls create_contract_from_contract, the bytes it passes
\* and the key of the code entry of the id derived from creator and salt.
Creator == context[Len(context)].id
SaltGiven == objects[ret'.arg.key + 1].val
CodeGiven == objects[ret'.arg.handle + 1].val
DerivedKey == contract_code_ledger_key(sha256(id_preimage_from_contract(Creator, SaltGiven)))
Created ==
  /\ ret'.op = "create_contract_from_contract"
  /\ ret'.val # StatusVal("BudgetExceeded")
  /\ context # <<>>
  /\ ret'.arg.handle < Len(objects) /\ ret'.arg.key < Len(objects)
  /\ objects[ret'.arg.handle + 1].type = "Bin" /\ objects[ret'.arg.key + 1].type = "Bin"

\* C20: the id of the contract created depends on the domain separator, the
\* creator and the salt only: when storage holds a code entry under that id,
\* whatever the code given, the creation fails with a general error and
\* storage is unchanged; when it holds none, the code given is stored under
\* that id and the object returned holds the id (creations that ran out of
\* budget aside).
C20_DuplicateIdFails ==
  [][Created
       => IF storage[DerivedKey] \in {Some(code) : code \in Codes}
            THEN /\ ret'.res = "Err"
                 /\ ret'.val = StatusVal("GeneralError")
                 /\ storage' = storage
            ELSE /\ ret'.res = "Ok"
                 /\ storage' = [storage EXCEPT ![DerivedKey] = Some(CodeGiven)]
                 /\ contract_code_ledger_key(objects'[ret'.val.handle + 1].val) = DerivedKey]_vars

\* C20 witness: a creation has failed with the general error on an id whose
\* entry holds a code other than the code it was given.
C20_Witness ==
  /\ ret.op = "create_contract_from_contract"
  /\ ret.res = "Err"
  /\ ret.val = StatusVal("GeneralError")
  /\ context # <<>>
  /\ objects[1] = BinObj(<<1>>)
  /\ storage[<<"h1", "ContractCodeWasm">>] = Some(<<3>>)

\* C21: get_current_contract returns the contract id of the topmost frame and
\* get_invoking_contract the id of the frame directly below it;
\* get_current_contract fails when the stack is empty or its top is a
\* host-function frame, get_invoking_contract when the stack holds fewer than
\* two frames or the frame below the top is a host-function frame. (Neither
\* function changes the stack, so the frames are read off the state it leaves.)
IdReturned(frame) ==
  /\ ret.val.tag = "Object"
  /\ ret.val.type = "Bin"
  /\ ret.val.handle = Len(objects) - 1
  /\ objects[Len(objects)] = BinObj(frame.id)

WellShaped(hf, args) ==
  IF hf = "Call"
    THEN /\ Len(args) >= 2
         /\ args[1].sc = "Object" /\ args[1].v # <<>>
         /\ args[2].sc = "Symbol"
    ELSE /\ Len(args) = 4
         /\ \A j \in 1..4 : args[j].sc = "Object" /\ args[j].v # <<>>

\* The step is an invoke_function of a vector that is not well shaped.
Misshaped ==
  /\ ret'.op \in {"invoke_function", "invoke_function_enter"}
  /\ ret'.arg.tag = "Invoke"
  /\ ret'.arg.handle \in DOMAIN ArgVecs
  /\ ~WellShaped(ret'.arg.type, ArgVecs[ret'.arg.handle])

C22_MisshapedArgsRejected ==
  [][Misshaped =>
       /\ ret'.op = "invoke_function"
       /\ ret'.res = "Err"
       /\ ret'.val = StatusVal("InputArgsWrongLength")
       /\ UNCHANGED <<context, storage, objects, stack>>]_vars

\* A CreateContract with five objects has been rejected, and so has a Call
\* whose first argument is no object.
C22_Witness ==
  /\ ret.op = "invoke_function"
  /\ ret.arg.tag = "Invoke"
  /\ ret.arg.handle \in DOMAIN ArgVecs
  /\ ret.val = StatusVal("InputArgsWrongLength")
  /\ \/ ret.arg.type = "CreateContract" /\ Len(ArgVecs[ret.arg.handle]) = 5
     \/ /\ ret.arg.type = "Call"
        /\ Len(ArgVecs[ret.arg.handle]) = 2
        /\ ArgVecs[ret.arg.handle][1].sc = "Symbol"

\* C23: in no execution of a host function is the object table, the storage,
\* the frame stack or the event log mutably borrowed while another borrow of
\* the same cell is live (borrow_mut of a RefCell panics when it is).
C23_NoOverlappingBorrow ==
  ~(ret.res = "Panic" /\ ret.val = StatusVal("already borrowed: BorrowMutError"))

\* The event functions and the type of contract event each records.
EventType(op) == IF op = "system_event" THEN "System" ELSE "Contract"
EventOps == {"contract_event", "system_event"}

\* A topic the event functions take: a value that is no object, or an object of
\* the table that is neither a vector nor a map nor a byte string of more than
\* 32 bytes.
TopicAllowed(t) ==
  \/ t.tag # "Object"
  \/ /\ t.handle + 1 \in 1..Len(objects)
     /\ objects[t.handle + 1].type \notin {"Vec", "Map"}
     /\ objects[t.handle + 1].type = "Bin" => Len(objects[t.handle + 1].val) <= 32

\* The handle names a vector of at most 4 allowed topics.
TopicsAllowed(handle) ==
  /\ handle + 1 \in 1..Len(objects)
  /\ objects[handle + 1].type = "Vec"
  /\ Len(objects[handle + 1].val) <= 4
  /\ \A i \in 1..Len(objects[handle + 1].val) : TopicAllowed(objects[handle + 1].val[i])

ContractEventsIn(evs) == {i \in 1..Len(evs) : evs[i].type \in {"Contract", "System"}}

\* C24: contract_event and system_event succeed only on a vector of at most 4
\* topics, each a value that is no container or a byte string of at most 32
\* bytes; when they succeed, exactly one contract event of the type of the
\* function, with one topic per entry of the vector, is appended to the event
\* log and OK is returned; on a vector that breaks the limits they fail and no
\* contract event is appended.
C24_ContractEventTopics ==
  [][ret'.op \in EventOps
       => /\ ret'.res = "Ok"
               => /\ TopicsAllowed(ret'.arg.handle)
                  /\ ret'.val = OK
                  /\ Len(events') = Len(events) + 1
                  /\ SubSeq(events', 1, Len(events)) = events
                  /\ events'[Len(events')].type = EventType(ret'.op)
                  /\ Len(events'[Len(events')].topics)
                       = Len(objects[ret'.arg.handle + 1].val)
                  /\ events'[Len(events')].data = ScU32(ret'.arg.type)
          /\ ~TopicsAllowed(ret'.arg.handle)
               => /\ ret'.res = "Err"
                  /\ ContractEventsIn(events') = ContractEventsIn(events)]_vars

\* C24 witness: system_event has recorded a System event with the four topics
\* of its vector.
C24_Witness ==
  /\ ret.op = "system_event"
  /\ ret.res = "Ok"
  /\ events # <<>>
  /\ events[Len(events)].type = "System"
  /\ Len(events[Len(events)].topics) = 4

\* A vector of five topics and one with a byte string of 33 bytes have been
\* refused, and the event log is empty.
C24_WitnessRefused ==
  /\ ret.op \in EventOps
  /\ ret.res = "Err"
  /\ ret.arg.handle + 1 \in 1..Len(objects)
  /\ objects[ret.arg.handle + 1].type = "Vec"
  /\ \/ Len(objects[ret.arg.handle + 1].val) = 5
     \/ /\ objects[ret.arg.handle + 1].val # <<>>
        /\ objects[ret.arg.handle + 1].val[1].tag = "Object"
        /\ objects[objects[ret.arg.handle + 1].val[1].handle + 1].type = "Bin"
        /\ Len(objects[objects[ret.arg.handle + 1].val[1].handle + 1].val) = 33
  /\ ~BudgetExceeded(budget)
  /\ events = <<>>

\* The account entry whose id is held by the object under the handle.
AccountOf(handle) ==
  CHOOSE ae \in {AccountEntries[i] : i \in DOMAIN AccountEntries} :
    ae.account_id = objects[handle + 1].val

\* The weights listed for the key among the Ed25519 signers of the account.
ListedWeights(ae, key) ==
  {ae.signers[i].weight : i \in {j \in DOMAIN ae.signers :
                                   /\ ae.signers[j].key.type = "Ed25519"
                                   /\ ae.signers[j].key.key = key}}

\* C25: when account_get_signer_weight(account, signer) returns a value, the
\* value is the master weight of the account when signer is the key of the
\* account itself (listed among its signers or not), the weight listed for
\* signer among the Ed25519 signers of the account when it is listed there, and
\* 0 otherwise.
C25_SignerWeight ==
  (ret.op = "account_get_signer_weight" /\ ret.res = "Ok")
    => LET ae == AccountOf(ret.arg.type)
           key == objects[ret.arg.handle + 1].val
       IN IF key = ae.account_id THEN ret.val = U32Val(ae.thresholds[1])
          ELSE IF ListedWeights(ae, key) # {}
            THEN ret.val.tag = "U32" /\ ret.val.handle \in ListedWeights(ae, key)
          ELSE ret.val = U32Val(0)

\* C25 witness: the weight of a listed Ed25519 signer that is not the master
\* key has been returned, on an account that also lists the same bytes as a
\* key of another type.
C25_Witness ==
  /\ ret.op = "account_get_signer_weight"
  /\ ret.res = "Ok"
  /\ objects[ret.arg.type + 1].val = <<1>>
  /\ objects[ret.arg.handle + 1].val = <<2>>
  /\ ret.val = U32Val(7)

\* The master weight has been returned for the account's own key, which the
\* account also lists among its signers with another weight.
C25_WitnessMaster ==
  /\ ret.op = "account_get_signer_weight"
  /\ ret.res = "Ok"
  /\ ret.arg.type = ret.arg.handle
  /\ objects[ret.arg.type + 1].val = <<1>>
  /\ ret.val = U32Val(5)

\* 0 has been returned for a key the account lists only under another type.
C25_WitnessNoMatch ==
  /\ ret.op = "account_get_signer_weight"
  /\ ret.res = "Ok"
  /\ objects[ret.arg.type + 1].val = <<2>>
  /\ objects[ret.arg.handle + 1].val = <<3>>
  /\ ret.val = U32Val(0)

BigIntOps == {"bigint_div", "bigint_rem"}

\* The handle names a big integer of the table.
IsBigInt(handle) == handle + 1 \in 1..Len(objects) /\ objects[handle + 1].type = "BigInt"

\* q and r are the quotient and the remainder of a by b # 0: a = q * b + r with
\* r smaller than b in magnitude and of the sign of a.
QuotRem(a, b, q, r) == a = q * b + r /\ Abs(r) < Abs(b) /\ r * a >= 0

\* C26: bigint_div and bigint_rem of two big integers, when the budget does not
\* stop them, fail with a general error and leave the object table as it was
\* when the divisor is zero; when it is not zero they append exactly one object
\* to the table, the quotient for bigint_div and the remainder for bigint_rem,
\* and return its handle.
C26_BigIntDivRem ==
  [][(/\ ret'.op \in BigIntOps
      /\ ret'.val # StatusVal("BudgetExceeded")
      /\ IsBigInt(ret'.arg.type)
      /\ IsBigInt(ret'.arg.handle))
       => LET a == objects[ret'.arg.type + 1].val
              b == objects[ret'.arg.handle + 1].val
          IN IF b = 0
             THEN /\ ret'.res = "Err"
                  /\ ret'.val = StatusVal("GeneralError")
                  /\ objects' = objects
             ELSE /\ ret'.res = "Ok"
                  /\ ret'.val = ObjectVal("BigInt", Len(objects))
                  /\ Len(objects') = Len(objects) + 1
                  /\ SubSeq(objects', 1, Len(objects)) = objects
                  /\ objects'[Len(objects')].type = "BigInt"
                  /\ IF ret'.op = "bigint_div"
                     THEN QuotRem(a, b, objects'[Len(objects')].val,
                                  a - objects'[Len(objects')].val * b)
                     ELSE \E q \in -Abs(a)..Abs(a) :
                            QuotRem(a, b, q, objects'[Len(objects')].val)]_vars

\* C26 witness: bigint_div of -7 by 2 has added the quotient -3 as the object
\* it returns.
C26_Witness ==
  /\ ret.op = "bigint_div"
  /\ ret.res = "Ok"
  /\ objects[ret.arg.type + 1].val = -7
  /\ objects[ret.arg.handle + 1].val = 2
  /\ objects[ret.val.handle + 1] = BigIntObj(-3)

\* bigint_rem by zero has failed with a general error on a table of two objects.
C26_WitnessZero ==
  /\ ret.op = "bigint_rem"
  /\ ret.res = "Err"
  /\ ret.val = StatusVal("GeneralError")
  /\ IsBigInt(ret.arg.type)
  /\ IsBigInt(ret.arg.handle)
  /\ objects[ret.arg.handle + 1].val = 0
  /\ Len(objects) = 2

\* C27: the assertion start_depth == end_depth at the end of with_frame fails
\* in no execution: a frame is left on the stack only when the PopFrame charge
\* has exhausted the budget, and from then on every pop_frame returns at its
\* charge, before the assertion of its with_frame is reached.
C27_DepthAssertionHolds ==
  ~(ret.res = "Panic" /\ ret.val = StatusVal("assertion failed: start_depth == end_depth"))

\* C27 witness: an outer with_frame has returned while its own frame and the
\* frame of an inner with_frame are still on the stack: both pops were stopped
\* by the budget, and no assertion was evaluated on the unbalanced stack.
C27_Witness ==
  /\ WfRan
  /\ ret.res = "Err"
  /\ ret.act[1].start_depth = 0
  /\ Len(context) = 2
  /\ stack = <<>>
  /\ ~panicked

\* C28: whenever invoke_function returns an error, the host is as it was before
\* the call: the storage overlay, the length of the object table and the depth
\* of the frame stack are those found when invoke_function was entered.
C28_InvokeErrorRollsBack ==
  (ret.op = "invoke_function" /\ ret.res = "Err")
    => /\ storage = ret.act[1].rp.storage
       /\ Len(objects) = ret.act[1].rp.objects
       /\ Len(context) = ret.act[1].start_depth

\* The same, for the errors other than the exhaustion of the budget.
C28_InvokeErrorWithBudgetRollsBack ==
  (ret.op = "invoke_function" /\ ret.res = "Err" /\ ~BudgetExceeded(budget))
    => /\ storage = ret.act[1].rp.storage
       /\ Len(objects) = ret.act[1].rp.objects
       /\ Len(context) = ret.act[1].start_depth

\* C29: with_frame charges GuardFrame and then PushFrame before anything else:
\* a frame is pushed and the closure started only with the budget not
\* exhausted, and when one of the two charges fails with_frame returns that
\* error (the exhaustion of the budget) with the closure not run, and the frame
\* stack, the object table and the storage as they were.
C29_EntryChargesFirst ==
  [][/\ ret'.op = "push_frame"
          => /\ ~BudgetExceeded(budget')
             /\ Len(context') = Len(context) + 1
             /\ SubSeq(context', 1, Len(context)) = context
     /\ (ret'.op = "with_frame" /\ ~ret'.act[1].pushed)
          => /\ ret'.res = "Err"
             /\ ret'.val = StatusVal("BudgetExceeded")
             /\ ret'.body = NoBody
             /\ UNCHANGED <<context, objects, storage, stack>>]_vars

\* C29 witness: inside a frame that has written to storage, a second with_frame
\* has returned the exhaustion of the budget without pushing its frame.
C29_Witness ==
  /\ ret.op = "with_frame"
  /\ ~ret.act[1].pushed
  /\ ret.res = "Err"
  /\ Len(context) = 1
  /\ Len(stack) = 1
  /\ storage # [key \in Keys |-> Absent]

\* A nested with_frame has just returned Ok inside the frame of an enclosing
\* with_frame, and has left a storage write or an object of its own.
InnerCommitted ==
  /\ WfRan
  /\ ret.op = "with_frame"
  /\ ret.wf[1].res = "Ok"
  /\ stack # <<>>
  /\ ret.act[1].start_depth = Len(stack)
  /\ \/ storage # ret.act[1].rp.storage
     \/ Len(objects) > ret.act[1].rp.objects

\* C30: the commit of a nested with_frame is relative to its parent: when the
\* enclosing with_frame then returns an error, the storage and the length of
\* the object table are those of the enclosing frame's own rollback point, so
\* that what the nested frame committed is reverted.
C30_NestedCommitRevertedWithParent ==
  [][(/\ InnerCommitted
      /\ ret'.op = "with_frame"
      /\ ret'.act[1].pushed
      /\ ret'.wf[1].res = "Err")
       => /\ storage' = ret'.act[1].rp.storage
          /\ Len(objects') = ret'.act[1].rp.objects]_vars

\* The same, for an enclosing with_frame whose PopFrame charge the budget covers.
C30_NestedCommitRevertedWithBudget ==
  [][(/\ InnerCommitted
      /\ ret'.op = "with_frame"
      /\ ret'.act[1].pushed
      /\ ret'.wf[1].res = "Err"
      /\ ~BudgetExceeded(budget'))
       => /\ storage' = ret'.act[1].rp.storage
          /\ Len(objects') = ret'.act[1].rp.objects]_vars

\* C31: a rollback never touches the objects that existed before the frame was
\* pushed: no step, the return of a with_frame (committed or rolled back)
\* included, removes or changes an object below the rollback point of a
\* with_frame that is live when the step is taken; so when a with_frame
\* returns, every handle valid at its entry resolves to the same object.
C31_RollbackKeepsOlderObjects ==
  [][\A i \in 1..Len(stack) :
       /\ Len(objects') >= stack[i].rp.objects
       /\ SubSeq(objects', 1, stack[i].rp.objects)
            = SubSeq(objects, 1, stack[i].rp.objects)]_vars

\* C31 witness: a nested with_frame has failed and its rollback has removed the
\* object added inside it, while the two objects older than the frame are in
\* the table as before.
C31_Witness ==
  /\ WfRan
  /\ ret.rolled
  /\ ret.act[1].start_depth = 1
  /\ ret.act[1].rp.objects = 2
  /\ Len(issued) = 3
  /\ objects = <<BinObj("c1"), VecObj(<<>>)>>

\* The chain of nested calls has ended: a with_frame has failed with
\* BudgetExceeded at its GuardFrame or PushFrame charge, pushing no frame.
ChainEnded ==
  /\ ret.op = "with_frame"
  /\ ret.res = "Err"
  /\ ret.val = StatusVal("BudgetExceeded")
  /\ ~ret.act[1].pushed

\* C32: nesting is bounded by the budget alone: with a finite limit and the
\* two charges of a frame push costing a unit each, the depth of the frame
\* stack never exceeds half the limit, and every chain of nested with_frame
\* calls ends with a with_frame that fails with BudgetExceeded at its
\* GuardFrame or PushFrame charge.
C32_NestingBoundedByBudget ==
  /\ [](2 * Len(context) <= budget.limit)
  /\ <>ChainEnded

\* C32 witness: a chain has pushed as many frames as the limit pays for, and
\* the next with_frame has failed with BudgetExceeded.
C32_Witness ==
  /\ ChainEnded
  /\ Len(context) = 2
  /\ 2 * Len(context) = budget.limit

\* The length of the object table, elided objects included, is above u32::MAX.
TableAboveU32Max ==
  \/ elided[1] > 65535
  \/ elided[1] = 65535 /\ elided[2] + Len(objects) > 65535

\* C33: an add_host_object that succeeds returns as handle the length of the
\* object table before the call and grows the table by exactly one object, the
\* one added; add_host_object is rejected with ObjectCountExceedsU32Max, the
\* table unchanged, exactly when that length, the new handle, is above u32::MAX.
C33_HandleIsLengthUpToU32Max ==
  [][ret'.op \in {"obj_from_u64", "vec_new"}
       => /\ ret'.res = "Ok"
               => /\ ret'.val.handle = Len(objects)
                  /\ Len(objects') = Len(objects) + 1
                  /\ SubSeq(objects', 1, Len(objects)) = objects
                  /\ objects'[Len(objects')].type = ret'.val.type
                  /\ ~TableAboveU32Max
          /\ (ret'.res = "Err" /\ ret'.val = StatusVal("ObjectCountExceedsU32Max"))
               <=> TableAboveU32Max
          /\ TableAboveU32Max => objects' = objects
          /\ elided' = elided]_vars

\* C33 witness: on a table of u32::MAX objects an add has succeeded, with the
\* handle u32::MAX, and the next add has been rejected.
C33_Witness ==
  /\ ret.val = StatusVal("ObjectCountExceedsU32Max")
  /\ elided[1] = 65535
  /\ elided[2] + Len(objects) = 65536
  /\ objects # <<>>

\* C34: on a map m, map_min_key(m) returns the least key of m and
\* map_max_key(m) the greatest; on an empty map both return the status
\* UNKNOWN_ERROR as a value, the call itself succeeding (calls that ran out of
\* budget aside).
C34_MinMaxKeys ==
  [][/\ OnMap("map_min_key")
          => /\ ret'.res = "Ok"
             /\ IF KeysOfMap = {} THEN ret'.val = StatusVal("UnknownError")
                 ELSE /\ ret'.val.tag = "U32"
                      /\ ret'.val.handle \in KeysOfMap
                      /\ \A x \in KeysOfMap : ret'.val.handle <= x
     /\ OnMap("map_max_key")
          => /\ ret'.res = "Ok"
             /\ IF KeysOfMap = {} THEN ret'.val = StatusVal("UnknownError")
                 ELSE /\ ret'.val.tag = "U32"
                      /\ ret'.val.handle \in KeysOfMap
                      /\ \A x \in KeysOfMap : ret'.val.handle >= x]_vars

\* C34 witness: map_max_key has returned the greatest of the three keys of a map.
C34_Witness ==
  /\ ret.op = "map_max_key"
  /\ ret.res = "Ok"
  /\ ret.arg.handle < Len(objects)
  /\ objects[ret.arg.handle + 1].type = "Map"
  /\ Len(objects[ret.arg.handle + 1].val) = 3
  /\ ret.val = U32Val(3)

\* map_min_key has returned UNKNOWN_ERROR as a value on an empty map.
C34_WitnessEmpty ==
  /\ ret.op = "map_min_key"
  /\ ret.res = "Ok"
  /\ ret.arg.handle < Len(objects)
  /\ objects[ret.arg.handle + 1] = MapObj(<<>>)
  /\ ret.val = StatusVal("UnknownError")

\* C35: obj_cmp does not refuse a handle that is not in the object table: when
\* the budget does not stop it, it returns a result, which is -1 when only the
\* first handle is out of range, 1 when only the second is, and 0 when both
\* are, whichever out-of-range handles they are.
C35_StaleHandlesCompare ==
  [][(ret'.op = "obj_cmp" /\ ret'.val # StatusVal("BudgetExceeded"))
       => LET aOut == ret'.arg.handle >= Len(objects)
              bOut == ret'.arg.key >= Len(objects)
          IN /\ ret'.res = "Ok"
             /\ (aOut /\ bOut) => ret'.val = I64(0)
             /\ (aOut /\ ~bOut) => ret'.val = I64(-1)
             /\ (~aOut /\ bOut) => ret'.val = I64(1)]_vars

\* C35 witness: a handle issued inside a frame that was then rolled back has
\* been compared with a handle of the table and found less.
C35_Witness ==
  /\ ret.op = "obj_cmp"
  /\ ret.res = "Ok"
  /\ ret.arg.handle >= Len(objects)
  /\ ret.arg.handle < Len(issued)
  /\ ret.arg.key < Len(objects)
  /\ ret.val = I64(-1)

\* Two different handles that are out of range have been found equal.
C35_WitnessBothOut ==
  /\ ret.op = "obj_cmp"
  /\ ret.res = "Ok"
  /\ ret.arg.handle >= Len(objects)
  /\ ret.arg.key > ret.arg.handle
  /\ ret.val = I64(0)

CopyOps == {"binary_copy_from_slice", "binary_copy_from_linear_memory"}

C36_WitnessInside ==
  /\ ret.op = "binary_copy_from_linear_memory"
  /\ ret.res = "Ok"
  /\ objects[ret.arg.handle + 1].val = <<1, 2>>
  /\ ret.arg.key = 0
  /\ ret.arg.mem = <<2>>
  /\ objects[ret.val.handle + 1].val = <<2, 2>>

\* Every balance the storage holds is at least 0.
BalancesNonNegative == \A id \in Ids : StoredBalance(storage, id) >= 0

\* C37: token balances never go negative: under receive_balance and
\* spend_balance with amounts that are not negative, the stored balance of
\* every identifier stays at least 0 (no stored balance counts as 0), and a
\* spend_balance of more than the stored balance that the budget does not stop
\* fails with ContractError and writes nothing.
C37_BalancesNeverNegative ==
  /\ []BalancesNonNegative
  /\ [][(/\ ret'.op = "spend_balance"
         /\ ret'.arg.handle > StoredBalance(storage, ret'.arg.type)
         /\ ~BudgetExceeded(budget'))
          => /\ ret'.res = "Err"
             /\ ret'.val = StatusVal("ContractError")
             /\ storage' = storage]_vars

\* C37 witness: in a deployment without footprint, a spend_balance of 1 was
\* refused with ContractError for an identifier that is not frozen and holds a
\* balance of 0.
C37_Witness ==
  /\ ret.op = "spend_balance"
  /\ ret.arg.handle = 1
  /\ ~footprint.passed
  /\ storage[BalanceKey(ret.arg.type)] = Some(0)
  /\ storage[StateKey(ret.arg.type)] # Some(1)
  /\ ret.res = "Err"
  /\ ret.val = StatusVal("ContractError")

\* A spend_balance of 1 went through and left a balance of 1.
C37_WitnessSpent ==
  /\ ret.op = "spend_balance"
  /\ ret.arg.handle = 1
  /\ ret.res = "Ok"
  /\ storage[BalanceKey(ret.arg.type)] = Some(1)

\* id is frozen: the state stored for it is true.
Frozen(st, id) == st[StateKey(id)] = Some(from_bool(TRUE))

\* C38: while an identifier is frozen, a receive_balance and a spend_balance on
\* it that the budget does not stop fail with ContractError and leave its
\* stored balance as it is.
C38_FrozenRefused ==
  [][(/\ ret'.op \in {"receive_balance", "spend_balance"}
      /\ Frozen(storage, ret'.arg.type)
      /\ ~BudgetExceeded(budget'))
       => /\ ret'.res = "Err"
          /\ ret'.val = StatusVal("ContractError")
          /\ storage'[BalanceKey(ret'.arg.type)] = storage[BalanceKey(ret'.arg.type)]]_vars

\* The storage lets the state of id be read: no footprint was passed, or the
\* footprint declares the key.
StateReadable(id) ==
  \/ ~footprint.passed
  \/ StateKey(id) \in footprint.readonly \cup footprint.readwrite

\* The same, where the storage lets the state of the identifier be read; and
\* an identifier whose state was never written is not refused as frozen.
C38_FrozenRefusedWhenReadable ==
  [][(/\ ret'.op \in {"receive_balance", "spend_balance"}
      /\ StateReadable(ret'.arg.type)
      /\ ~BudgetExceeded(budget'))
       => IF Frozen(storage, ret'.arg.type)
            THEN /\ ret'.res = "Err"
                 /\ ret'.val = StatusVal("ContractError")
                 /\ storage' = storage
            ELSE storage[StateKey(ret'.arg.type)] = Absent /\ ret'.op = "receive_balance"
                   => ret'.res = "Ok"]_vars

====
